---- MODULE Spec2Model ----
(***************************************************************************)
(* A model of the fund screening scripts: the pickle-file cache and the    *)
(* net-value fallback chain of fund_screener.py, the retry loops (getURL,  *)
(* @retry), the two-provider chains of integrated_fund_screener.py and the *)
(* three batch schedulers (thread pool, asyncio semaphore, multitasking).  *)
(*                                                                         *)
(* Every function of the scripts is one action: the action takes the       *)
(* answers of the network and of the file system as inputs (\E) and        *)
(* records what the function returned in `last`.                           *)
(***************************************************************************)
EXTENDS Integers, Sequences, FiniteSets, TLC

(***************************************************************************)
(* Program constants                                                       *)
(***************************************************************************)
\* fund_screener.py:38, the least number of rows of a usable series
MIN_DAYS == 100
\* the fee get_fund_fee returns when it has none, 1.5 %, in tenths of a percent
DEFAULT_FEE == 15
\* fund_screener.py:36, 2.5 % in tenths of a percent
MAX_FEE == 25
\* getURL(url, tries_num=5, ...)
tries_num == 5
\* @retry(tries=3) on get_quote_history and get_period_change
RETRY_TRIES == 3

\* fund_screener.py:993, ThreadPoolExecutor(max_workers=5)
max_workers == 5
\* fund_detailed_screener.py:117, asyncio.Semaphore(5)
SEMAPHORE_SLOTS == 5
\* fund_screener.py:114
MAX_CONNECTIONS == 100

(***************************************************************************)
(* Bounds of the model                                                     *)
(***************************************************************************)
\* the payloads hold the dates 1 .. MIN_DAYS + Slack
Slack == 2
\* the funds of a thread-pool or gather batch
BatchTasks == 7
\* get_quote_history_multi is given MAX_CONNECTIONS + ExtraCodes fund codes
ExtraCodes == 2
\* the funds of recommended_cn_funds.csv that fund_detailed_screener enriches
DetailFunds == 3

MaxDate == MIN_DAYS + Slack

\* the funds of the model
Codes == {"000001", "000002"}

\* start_date = now - 3 years and end_date = now: they move from run to run
StartDates == {1, Slack + 1}
EndDates == {MaxDate}

None == << >>
Some(x) == << x >>
\* pandas' NaN: what pd.to_numeric(errors='coerce') makes of a non-number
NaN == 0 - 1

(***************************************************************************)
(* The cache directory: one pickle file per (kind, fund)                   *)
(***************************************************************************)
FileKinds == {"fee", "realtime_estimate", "company", "net_values"}

FileNames == (FileKinds \X Codes) \cup {<<"fund_list", "">>}

\* os.path.exists(cache_file) is False
NoFile == [kind |-> "absent", v |-> None, stale |-> FALSE]
\* a file a failed pickle.dump left behind: pickle.load raises on it
Corrupt == [kind |-> "corrupt", v |-> None, stale |-> FALSE]
\* a complete pickle of v; stale: older than any time-to-live one may choose
Pickled(v) == [kind |-> "pickle", v |-> v, stale |-> FALSE]

\* with open(cache_file, "wb") as f: pickle.dump(v, f)
\*   "ok"          the file holds v
\*   "open_fails"  open() raises, the file is as it was
\*   "dump_fails"  open() truncated the file and pickle.dump raised
WriteOutcomes == {"ok", "open_fails", "dump_fails"}

pickle_dump(fs, name, v, w) ==
    CASE w = "ok" -> [fs EXCEPT ![name] = Pickled(v)]
      [] w = "open_fails" -> fs
      [] w = "dump_fails" -> [fs EXCEPT ![name] = Corrupt]

\* if os.path.exists(cache_file): try: pickle.load(f) except Exception: pass
cache_hit(fs, name) == fs[name].kind = "pickle"

(***************************************************************************)
(* The record of a call: the function, its fund and arguments, the cache   *)
(* file as the call found it, what the call did (o, below) and whether the *)
(* script ended on the result                                              *)
(***************************************************************************)
Last(fn, code, args, before, o, exited) ==
    [fn |-> fn, code |-> code, args |-> args, before |-> before, ret |-> o.ret,
     net |-> o.net, fetched |-> o.fetched, wfailed |-> o.wfailed,
     calls |-> o.calls, raised |-> o.raised, exited |-> exited]

(***************************************************************************)
(* What a cached function hands back to the action that models its call    *)
(*   files    the cache directory after the call                           *)
(*   ret      the value returned                                           *)
(*   net      the number of session.get requests made                      *)
(*   fetched  Some(v): the request and the parse gave v; None: no value    *)
(*   wfailed  the pickle.dump of the call raised                           *)
(*   calls    the providers invoked, in order (fallback chains)            *)
(*   raised   the call ended in an exception that it did not catch         *)
(***************************************************************************)
Outcome(fs, ret, net, fetched, wfailed) ==
    [files |-> fs, ret |-> ret, net |-> net, fetched |-> fetched,
     wfailed |-> wfailed, calls |-> << >>, raised |-> FALSE]

(***************************************************************************)
(* get_fund_fee                                                            *)
(***************************************************************************)
\* the answers of pingzhongdata/{code}.js to the fee request:
\*   "reqexc"  session.get or raise_for_status raises RequestException
\*   "nofee"   the page has no data_fundTribble.ManagerFee
\*   "fee"     the page names the fee (tenths of a percent)
FeeResponses ==
    {[kind |-> "reqexc", fee |-> 0], [kind |-> "nofee", fee |-> 0],
     [kind |-> "fee", fee |-> 8], [kind |-> "fee", fee |-> 30]}

\* get_fund_fee without the read of fee_{code}.pkl: every call asks the network
get_fund_fee_uncached(fs, code, resp, w) ==
    LET name == <<"fee", code>>
        fee == IF resp.kind = "fee" THEN resp.fee ELSE DEFAULT_FEE
    IN  IF resp.kind = "reqexc"
          THEN Outcome(fs, DEFAULT_FEE, 1, None, FALSE)
        ELSE IF w = "ok"
          THEN Outcome(pickle_dump(fs, name, fee, w), fee, 1, Some(fee), FALSE)
        ELSE Outcome(pickle_dump(fs, name, fee, w), DEFAULT_FEE, 1, Some(fee), TRUE)

get_fund_fee(fs, code, resp, w) ==
    LET name == <<"fee", code>>
        fee == IF resp.kind = "fee" THEN resp.fee ELSE DEFAULT_FEE
    IN  IF cache_hit(fs, name)
          THEN Outcome(fs, fs[name].v, 0, None, FALSE)
        ELSE IF resp.kind = "reqexc"
          THEN Outcome(fs, DEFAULT_FEE, 1, None, FALSE)
        ELSE IF w = "ok"
          THEN Outcome(pickle_dump(fs, name, fee, w), fee, 1, Some(fee), FALSE)
        \* the write is inside the try: except Exception returns 1.5
        ELSE Outcome(pickle_dump(fs, name, fee, w), DEFAULT_FEE, 1, Some(fee), TRUE)

(***************************************************************************)
(* get_fund_realtime_estimate                                              *)
(***************************************************************************)
\*   "reqexc"    the request raises
\*   "nomatch"   no jsonpgz(...) in the text: the function falls off its end
\*   "nogsz"     the JSON has no gsz
\*   "badfloat"  float(gsz) raises ValueError
\*   "gsz"       an estimate
EstimateResponses ==
    {[kind |-> "reqexc", gsz |-> 0], [kind |-> "nomatch", gsz |-> 0],
     [kind |-> "nogsz", gsz |-> 0], [kind |-> "badfloat", gsz |-> 0],
     [kind |-> "gsz", gsz |-> 11], [kind |-> "gsz", gsz |-> 12]}

get_fund_realtime_estimate(fs, code, resp, w) ==
    LET name == <<"realtime_estimate", code>>
    IN  IF cache_hit(fs, name)
          THEN Outcome(fs, Some(fs[name].v), 0, None, FALSE)
        ELSE IF resp.kind # "gsz"
          THEN Outcome(fs, None, 1, None, FALSE)
        ELSE IF w = "ok"
          THEN Outcome(pickle_dump(fs, name, resp.gsz, w), Some(resp.gsz), 1,
                       Some(resp.gsz), FALSE)
        \* OSError is neither ValueError nor TypeError: the outer except returns None
        ELSE Outcome(pickle_dump(fs, name, resp.gsz, w), None, 1, Some(resp.gsz), TRUE)

(***************************************************************************)
(* get_fund_company_info                                                   *)
(***************************************************************************)
\*   "exc"   the request raises, or the page has no fundDetail-main link
\*   "name"  the company's name
CompanyResponses ==
    {[kind |-> "exc", name |-> ""], [kind |-> "name", name |-> "E Fund"],
     [kind |-> "name", name |-> "Harvest"]}

get_fund_company_info(fs, code, resp, w) ==
    LET name == <<"company", code>>
    IN  IF cache_hit(fs, name)
          THEN Outcome(fs, Some(fs[name].v), 0, None, FALSE)
        ELSE IF resp.kind # "name"
          THEN Outcome(fs, None, 1, None, FALSE)
        ELSE IF w = "ok"
          THEN Outcome(pickle_dump(fs, name, resp.name, w), Some(resp.name), 1,
                       Some(resp.name), FALSE)
        ELSE Outcome(pickle_dump(fs, name, resp.name, w), None, 1, Some(resp.name), TRUE)

(***************************************************************************)
(* get_all_funds_from_eastmoney                                            *)
(***************************************************************************)
\* fund_screener.py:40 (hybrid, stock and index funds)
FUND_TYPE_FILTER == {"hybrid", "stock", "index"}

FundRowsA ==
    << [code |-> "000001", type |-> "hybrid"], [code |-> "000002", type |-> "bond"],
       [code |-> "000001", type |-> "hybrid"] >>

FundRowsB ==
    << [code |-> "000001", type |-> "stock"], [code |-> "000003", type |-> "index"] >>

\*   "reqexc"   the request raises
\*   "nomatch"  the text has no "var r = [...]"
\*   "badjson"  json.loads raises
\*   "data"     a list of funds
FundListResponses ==
    {[kind |-> "reqexc", rows |-> << >>], [kind |-> "nomatch", rows |-> << >>],
     [kind |-> "badjson", rows |-> << >>],
     [kind |-> "data", rows |-> FundRowsA], [kind |-> "data", rows |-> FundRowsB]}

\* df.drop_duplicates(subset=['code']): the first row of each code
drop_duplicates(rows) ==
    LET first(i) == \A j \in 1..(i - 1) : rows[j].code # rows[i].code
        keep == {i \in 1..Len(rows) : first(i)}
        RECURSIVE take(_)
        take(i) == IF i > Len(rows) THEN << >>
                   ELSE (IF i \in keep THEN << rows[i] >> ELSE << >>) \o take(i + 1)
    IN  take(1)

\* df[df['type'].isin(FUND_TYPE_FILTER)]
isin_filter(rows) == SelectSeq(rows, LAMBDA r : r.type \in FUND_TYPE_FILTER)

get_all_funds_from_eastmoney(fs, resp, w) ==
    LET name == <<"fund_list", "">>
        df == isin_filter(drop_duplicates(resp.rows))
    IN  IF cache_hit(fs, name)
          THEN Outcome(fs, fs[name].v, 0, None, FALSE)
        ELSE IF resp.kind # "data"
          THEN Outcome(fs, << >>, 1, None, FALSE)
        ELSE IF w = "ok"
          THEN Outcome(pickle_dump(fs, name, df, w), df, 1, Some(df), FALSE)
        \* the write is inside the try: except Exception returns pd.DataFrame()
        ELSE Outcome(pickle_dump(fs, name, df, w), << >>, 1, Some(df), TRUE)


(***************************************************************************)
(* Net-value series: a DataFrame is the sequence of its rows               *)
(***************************************************************************)
\* the payloads a source can answer with: rows [date, net_value]
PayloadAsc == [i \in 1..MaxDate |-> [date |-> i, net_value |-> 100 + (i % 7)]]
\* newest first, as the lsjz pages list them
PayloadDesc == [i \in 1..MaxDate |-> PayloadAsc[MaxDate + 1 - i]]
\* one value of the payload is no number
PayloadNaN == [PayloadAsc EXCEPT ![MaxDate \div 2].net_value = NaN]
\* a young fund
PayloadShort == SubSeq(PayloadAsc, MaxDate - 4, MaxDate)

Payload(name) ==
    CASE name = "asc" -> PayloadAsc
      [] name = "desc" -> PayloadDesc
      [] name = "nan" -> PayloadNaN
      [] name = "short" -> PayloadShort
      [] OTHER -> << >>

\* df[(df['date'] >= start_date) & (df['date'] <= end_date)]
date_filter(df, start_date, end_date) ==
    SelectSeq(df, LAMBDA p : p.date >= start_date /\ p.date <= end_date)

\* df.sort_values('date'): rows in ascending date order; place[i] is where
\* row i goes (rows of one date keep their order)
sort_values(df) ==
    LET n == Len(df)
        place == [i \in 1..n |->
                    Cardinality({j \in 1..n : \/ df[j].date < df[i].date
                                               \/ (df[j].date = df[i].date /\ j < i)}) + 1]
    IN  [k \in 1..n |-> df[CHOOSE i \in 1..n : place[i] = k]]

\* df.dropna(subset=['net_value'])
dropna(df) == SelectSeq(df, LAMBDA p : p.net_value # NaN)

\* what a provider returns: (df, latest_value), or an exception it lets through
Fetched(df, latest_value) == [df |-> df, latest_value |-> latest_value, raised |-> FALSE]
Raises == [df |-> << >>, latest_value |-> None, raised |-> TRUE]

\* lines 728-731 and 758-761: filter, sort, dropna, latest value
ingest(rows, start_date, end_date) ==
    LET df == dropna(sort_values(date_filter(rows, start_date, end_date)))
    IN  Fetched(df, IF df = << >> THEN None ELSE Some(df[Len(df)].net_value))

\* ingest, tabulated for the payloads and the date ranges of the model
PayloadNames == {"asc", "desc", "nan", "short"}
Ingested ==
    [a \in PayloadNames \X StartDates \X EndDates |-> ingest(Payload(a[1]), a[2], a[3])]
        @@ << >>

\* the answers of pingzhongdata/{code}.js:
\*   "reqexc"     the request raises RequestException
\*   "nomatch"    the text has no Data_netWorthTrend
\*   "badjson"    json.loads raises JSONDecodeError
\*   "emptylist"  Data_netWorthTrend = []: the frame has no 'date' column and
\*                df['date'] raises KeyError, which the except clause does not name
\*   "data"       a list of points
PingzhongdataResponses ==
    {[kind |-> "reqexc", payload |-> ""], [kind |-> "nomatch", payload |-> ""],
     [kind |-> "badjson", payload |-> ""], [kind |-> "emptylist", payload |-> ""],
     [kind |-> "data", payload |-> "asc"], [kind |-> "data", payload |-> "nan"],
     [kind |-> "data", payload |-> "short"]}

get_net_values_from_pingzhongdata(resp, start_date, end_date) ==
    CASE resp.kind \in {"reqexc", "nomatch", "badjson"} -> Fetched(<< >>, None)
      [] resp.kind = "emptylist" -> Raises
      [] resp.kind = "data" -> Ingested[<< resp.payload, start_date, end_date >>]

\* the answers of f10/lsjz:
\*   "reqexc", "nomatch", "badjson"  as above
\*   "nolist"  the JSON has no LSJZList, or an empty one
\*   "data"    a list of points
LsjzResponses ==
    {[kind |-> "reqexc", payload |-> ""], [kind |-> "nomatch", payload |-> ""],
     [kind |-> "badjson", payload |-> ""], [kind |-> "nolist", payload |-> ""],
     [kind |-> "data", payload |-> "desc"], [kind |-> "data", payload |-> "short"]}

get_net_values_from_lsjz(resp, start_date, end_date) ==
    CASE resp.kind \in {"reqexc", "nomatch", "badjson", "nolist"} -> Fetched(<< >>, None)
      [] resp.kind = "data" -> Ingested[<< resp.payload, start_date, end_date >>]

\* not df.empty and len(df) >= MIN_DAYS
long_enough(df) == df # << >> /\ Len(df) >= MIN_DAYS

(***************************************************************************)
(* get_fund_net_values: cache, then pingzhongdata, then lsjz               *)
(***************************************************************************)
NetValues(fs, df, latest_value, source, net, calls, fetched, wfailed, raised) ==
    [files |-> fs,
     ret |-> [df |-> df, latest_value |-> latest_value, source |-> source],
     net |-> net, fetched |-> fetched, wfailed |-> wfailed, calls |-> calls,
     raised |-> raised]

\* one provider of a chain, invoked: its name and whether it succeeded
Invoked(p, ok) == [p |-> p, ok |-> ok]

get_fund_net_values(fs, code, start_date, end_date, r1, r2, w) ==
    LET name == <<"net_values", code>>
        hit == cache_hit(fs, name) /\ long_enough(fs[name].v.df)
        \* os.path.exists(cache_file): the cache is read
        c0 == IF fs[name].kind = "absent" THEN << >> ELSE << Invoked("cache", hit) >>
        p1 == get_net_values_from_pingzhongdata(r1, start_date, end_date)
        p2 == get_net_values_from_lsjz(r2, start_date, end_date)
        v1 == [df |-> p1.df, latest_value |-> p1.latest_value]
        v2 == [df |-> p2.df, latest_value |-> p2.latest_value]
        c1 == c0 \o << Invoked("pingzhongdata", ~p1.raised /\ long_enough(p1.df)) >>
        c2 == c1 \o << Invoked("lsjz", long_enough(p2.df)) >>
    IN  IF hit
          THEN NetValues(fs, fs[name].v.df, fs[name].v.latest_value, "cache",
                         0, c0, None, FALSE, FALSE)
        ELSE IF p1.raised
          THEN NetValues(fs, << >>, None, "raised", 1, c1, None, FALSE, TRUE)
        ELSE IF long_enough(p1.df)
          \* try: pickle.dump(...) except Exception: pass
          THEN NetValues(pickle_dump(fs, name, v1, w), p1.df, p1.latest_value,
                         "pingzhongdata", 1, c1, Some(v1), w # "ok", FALSE)
        ELSE IF long_enough(p2.df)
          THEN NetValues(pickle_dump(fs, name, v2, w), p2.df, p2.latest_value,
                         "lsjz", 2, c2, Some(v2), w # "ok", FALSE)
        ELSE NetValues(fs, << >>, None, "None", 2, c2, None, FALSE, FALSE)

(***************************************************************************)
(* getURL: the retry loop of advanced_fund_screener.py and                 *)
(* integrated_fund_screener.py                                             *)
(***************************************************************************)
\* what one requests.get + raise_for_status of the loop does
\*   "ok"      a response
\*   "reqexc"  requests.RequestException (timeout, connection error, HTTP status)
AttemptOutcomes == {"ok", "reqexc"}

\* the answers the network would give to attempt 1, 2, ..., tries_num
AttemptPlans == [1..tries_num -> AttemptOutcomes]

\* for i in range(tries_num): try: ... return res / except RequestException: ...
\* i counts from 1; made: the outcomes of the attempts made so far, in order
RECURSIVE getURL_loop(_, _, _, _)
getURL_loop(plan, n, i, made) ==
    IF i > n THEN [res |-> None, made |-> made]
    ELSE IF plan[i] = "ok" THEN [res |-> Some("response"), made |-> Append(made, plan[i])]
    ELSE getURL_loop(plan, n, i + 1, Append(made, plan[i]))

\* a getURL whose loop is one attempt short: range(tries_num - 1)
getURL_one_short(plan) == getURL_loop(plan, tries_num - 1, 1, << >>)

getURL(plan) == getURL_loop(plan, tries_num, 1, << >>)

(***************************************************************************)
(* @retry(tries=3) of the retry package around get_quote_history and       *)
(* get_period_change: every Exception is retried, the last one is raised   *)
(***************************************************************************)
\* what one call of the decorated function does
\*   "ok"       a frame of rows
\*   "connerr"  fund_session.get raises (transient)
\*   "badjson"  .json() raises: the body is no JSON
\*   "nofield"  json_response["Datas"] (or ["Expansion"]) raises KeyError
CallOutcomes == {"ok", "connerr", "badjson", "nofield"}

NonTransient == {"badjson", "nofield"}

CallPlans == [1..RETRY_TRIES -> CallOutcomes]

\* retry_internal: while _tries: try: return f() except exceptions: _tries -= 1;
\* if not _tries: raise
RECURSIVE retry_call(_, _, _)
retry_call(plan, tries, made) ==
    LET outcome == plan[Len(made) + 1]
    IN  IF outcome = "ok" THEN [ok |-> TRUE, made |-> Append(made, outcome)]
        ELSE IF tries - 1 = 0 THEN [ok |-> FALSE, made |-> Append(made, outcome)]
        ELSE retry_call(plan, tries - 1, Append(made, outcome))

get_quote_history(plan) == retry_call(plan, RETRY_TRIES, << >>)

get_period_change(plan) == retry_call(plan, RETRY_TRIES, << >>)

(***************************************************************************)
(* get_realtime_valuation: fundgz through getURL, then yfinance            *)
(***************************************************************************)
\* what the body of a fundgz response is
\*   "good"     jsonpgz({... "dwjz": "1.23" ...});
\*   "badjson"  json.loads raises
\*   "nodwjz"   data['dwjz'] raises KeyError
BodyKinds == {"good", "badjson", "nodwjz"}

\* yf.Ticker(fund_code).history(...)['Close'].iloc[-1]: a price, or an exception
YfOutcomes == {"ok", "exc"}

Chain(ret, source, net, calls) ==
    [files |-> << >>, ret |-> [v |-> ret, source |-> source], net |-> net,
     fetched |-> None, wfailed |-> FALSE, calls |-> calls, raised |-> FALSE]

get_realtime_valuation(plan, body, yf) ==
    LET response == getURL(plan)
        n == Len(response.made)
        primary == response.res # None /\ body = "good"
        c1 == << Invoked("fundgz", primary) >>
        c2 == c1 \o << Invoked("yfinance", yf = "ok") >>
    IN  IF response.res # None
          THEN IF body = "good"
                 THEN Chain(Some("fundgz price"), "fundgz", n, c1)
               \* except Exception: the yfinance fallback
               ELSE IF yf = "ok"
                 THEN Chain(Some("yfinance price"), "yfinance", n, c2)
               ELSE Chain(None, "None", n, c2)
        \* if response: is False and nothing is raised: the function ends
        ELSE Chain(None, "None", n, c1)

(***************************************************************************)
(* get_fund_data: the F10DataApi page through getURL, then akshare         *)
(***************************************************************************)
\* what the page of a response holds
\*   "rows"     a table of net values
\*   "norows"   no //tbody/tr: ValueError
\*   "nocells"  rows of fewer than 7 cells: the frame is empty, ValueError
PageKinds == {"rows", "norows", "nocells"}

\* ak.fund_open_fund_daily_em: a frame, an empty frame (ValueError), an exception
AkOutcomes == {"rows", "empty", "exc"}

PageRows == << [date |-> 1, net_value |-> 100], [date |-> 2, net_value |-> 101] >>
AkRows == << [date |-> 0, net_value |-> 99], [date |-> 1, net_value |-> 100],
             [date |-> 2, net_value |-> 101] >>

\* a get_fund_data that asks akshare as well when the page gave its rows
get_fund_data_both(sdate, edate, plan, page, ak) ==
    LET response == getURL(plan)
        n == Len(response.made)
        primary == response.res # None /\ page = "rows"
        c2 == << Invoked("eastmoney", primary), Invoked("akshare", ak = "rows") >>
    IN  IF primary
          THEN Chain(dropna(PageRows), "eastmoney", n, c2)
        ELSE IF ak = "rows"
          THEN Chain(date_filter(AkRows, sdate, edate), "akshare", n, c2)
        ELSE Chain(<< >>, "None", n, c2)

\* called with mysql=None and mongodb=None, as main_scraper and analyze_fund do
get_fund_data(sdate, edate, plan, page, ak) ==
    LET response == getURL(plan)
        n == Len(response.made)
        \* response.text of None raises AttributeError, caught like the rest
        primary == response.res # None /\ page = "rows"
        c1 == << Invoked("eastmoney", primary) >>
        c2 == c1 \o << Invoked("akshare", ak = "rows") >>
    IN  IF primary
          THEN Chain(dropna(PageRows), "eastmoney", n, c1)
        ELSE IF ak = "rows"
          THEN Chain(date_filter(AkRows, sdate, edate), "akshare", n, c2)
        ELSE Chain(<< >>, "None", n, c2)


(***************************************************************************)
(* State                                                                   *)
(*   files  the cache directory fund_data_cache                            *)
(*   last   the latest call: the function, its arguments, the cache file   *)
(*          as the call found it, and what the call returned               *)
(*   batch, task, workers, semaphore, mt, main  the batch schedulers        *)
(*          (below)                                                        *)
(***************************************************************************)
VARIABLES files, last, batch, task, workers, semaphore, mt, main

vars == << files, last, batch, task, workers, semaphore, mt, main >>

schedVars == << batch, task, workers, semaphore, mt, main >>


\* One behaviour follows the calls of one function, over all funds and with
\* time passing between them: each function opens only the files of its own
\* kind (f"fee_{code}.pkl", f"net_values_{code}.pkl", ...), so the calls of
\* the other functions change nothing that it reads.
Follows(fn) == last.fn \in {"none", fn}

NoCall == Last("none", "", << >>, NoFile, Outcome(<< >>, None, 0, None, FALSE), FALSE)

NoThreads ==
    [pool |-> 0, pending |-> 0, waiting |-> 0, sleep |-> 0, fetch |-> 0, done |-> 0]

\* the code that submitted a batch: the future it waits for next, the results
\* it has collected (results, final_results), and whether it goes on
\*   "running"   the batch is under way
\*   "complete"  every result is in: the code after the batch runs
\*   "aborted"   an exception of a task left the batch
\*   "killed"    SIGINT: the process is gone
MainStart == [future |-> 1, results |-> {}, state |-> "running"]

\* no batch is running
SchedIdle ==
    /\ batch = "none"
    /\ task = [t \in 1..BatchTasks |-> "new"]
    /\ workers = 0
    /\ semaphore = SEMAPHORE_SLOTS
    /\ mt = NoThreads
    /\ main = MainStart

CacheInit ==
    /\ files = [n \in FileNames |-> NoFile]
    /\ last = NoCall
    /\ SchedIdle

CallGetFundFee ==
    /\ UNCHANGED schedVars
    /\ Follows("get_fund_fee")
    /\ \E code \in Codes, resp \in FeeResponses, w \in WriteOutcomes :
        LET o == get_fund_fee(files, code, resp, w)
        IN  /\ files' = o.files
            /\ last' = Last("get_fund_fee", code, << >>, files[<<"fee", code>>], o, FALSE)

CallGetFundRealtimeEstimate ==
    /\ UNCHANGED schedVars
    /\ Follows("get_fund_realtime_estimate")
    /\ \E code \in Codes, resp \in EstimateResponses, w \in WriteOutcomes :
        LET o == get_fund_realtime_estimate(files, code, resp, w)
        IN  /\ files' = o.files
            /\ last' = Last("get_fund_realtime_estimate", code, << >>,
                            files[<<"realtime_estimate", code>>], o, FALSE)

CallGetFundCompanyInfo ==
    /\ UNCHANGED schedVars
    /\ Follows("get_fund_company_info")
    /\ \E code \in Codes, resp \in CompanyResponses, w \in WriteOutcomes :
        LET o == get_fund_company_info(files, code, resp, w)
        IN  /\ files' = o.files
            /\ last' = Last("get_fund_company_info", code, << >>,
                            files[<<"company", code>>], o, FALSE)

\* __main__: fund_df = get_all_funds_from_eastmoney(); if fund_df.empty: exit
MainLoadFunds ==
    /\ UNCHANGED schedVars
    /\ Follows("get_all_funds_from_eastmoney")
    /\ \E resp \in FundListResponses, w \in WriteOutcomes :
        LET o == get_all_funds_from_eastmoney(files, resp, w)
        IN  /\ files' = o.files
            /\ last' = Last("get_all_funds_from_eastmoney", "", << >>,
                            files[<<"fund_list", "">>], o, o.ret = << >>)

CallGetFundNetValues ==
    /\ UNCHANGED schedVars
    /\ Follows("get_fund_net_values")
    /\ \E code \in Codes, start_date \in StartDates, end_date \in EndDates,
       r1 \in PingzhongdataResponses, r2 \in LsjzResponses, w \in WriteOutcomes :
        LET o == get_fund_net_values(files, code, start_date, end_date, r1, r2, w)
        IN  /\ files' = o.files
            /\ last' = Last("get_fund_net_values", code, << start_date, end_date >>,
                            files[<<"net_values", code>>], o, FALSE)

\* Time passes (the next run is days later): every file now in the cache is
\* older than any time-to-live.  No function of the scripts deletes a file.
TtlElapses ==
    /\ \E n \in FileNames : files[n].kind = "pickle" /\ ~files[n].stale
    /\ files' = [n \in FileNames |->
                    IF files[n].kind = "pickle" THEN [files[n] EXCEPT !.stale = TRUE]
                    ELSE files[n]]
    /\ UNCHANGED << last, schedVars >>

CacheNext ==
    \/ CallGetFundFee
    \/ CallGetFundRealtimeEstimate
    \/ CallGetFundCompanyInfo
    \/ MainLoadFunds
    \/ CallGetFundNetValues
    \/ TtlElapses

SpecCache == CacheInit /\ [][CacheNext]_vars


(***************************************************************************)
(* The fetch functions without a cache                                     *)
(***************************************************************************)
Retried(fn, plan, r) ==
    Last(fn, "", plan, NoFile,
         [ret |-> r.ok, net |-> Len(r.made), fetched |-> None, wfailed |-> FALSE,
          calls |-> r.made, raised |-> ~r.ok], FALSE)

CallGetURL ==
    /\ UNCHANGED << files, schedVars >>
    /\ Follows("getURL")
    /\ \E plan \in AttemptPlans :
        LET r == getURL(plan)
        IN  last' = Last("getURL", "", plan, NoFile,
                         [ret |-> r.res, net |-> Len(r.made), fetched |-> None,
                          wfailed |-> FALSE, calls |-> r.made, raised |-> FALSE], FALSE)

CallGetQuoteHistory ==
    /\ UNCHANGED << files, schedVars >>
    /\ Follows("get_quote_history")
    /\ \E plan \in CallPlans :
        last' = Retried("get_quote_history", plan, get_quote_history(plan))

CallGetPeriodChange ==
    /\ UNCHANGED << files, schedVars >>
    /\ Follows("get_period_change")
    /\ \E plan \in CallPlans :
        last' = Retried("get_period_change", plan, get_period_change(plan))

CallGetRealtimeValuation ==
    /\ UNCHANGED << files, schedVars >>
    /\ Follows("get_realtime_valuation")
    /\ \E plan \in AttemptPlans, body \in BodyKinds, yf \in YfOutcomes :
        last' = Last("get_realtime_valuation", "", << plan, body, yf >>, NoFile,
                     get_realtime_valuation(plan, body, yf), FALSE)

SDates == {0, 1}
EDates == {2}

CallGetFundData ==
    /\ UNCHANGED << files, schedVars >>
    /\ Follows("get_fund_data")
    /\ \E sdate \in SDates, edate \in EDates, plan \in AttemptPlans,
          page \in PageKinds, ak \in AkOutcomes :
        last' = Last("get_fund_data", "", << sdate, edate, plan, page, ak >>, NoFile,
                     get_fund_data(sdate, edate, plan, page, ak), FALSE)

FetchNext ==
    \/ CallGetURL
    \/ CallGetQuoteHistory
    \/ CallGetPeriodChange
    \/ CallGetRealtimeValuation
    \/ CallGetFundData

SpecFetch == CacheInit /\ [][FetchNext]_vars

\* the two fallback chains
ChainNext ==
    \/ CallGetFundNetValues
    \/ TtlElapses
    \/ CallGetFundData

SpecChain == CacheInit /\ [][ChainNext]_vars

(***************************************************************************)
(* The batch schedulers                                                    *)
(*   "pool"    __main__ of fund_screener.py: ThreadPoolExecutor            *)
(*   "gather"  main of fund_detailed_screener.py: asyncio.gather under a   *)
(*             semaphore                                                   *)
(*   "multi"   get_quote_history_multi: one multitasking thread per code   *)
(* task[t]: "new", "queued" (submitted, or waiting for the semaphore),     *)
(* "running", and how the task ended: "returned" (a result), "none" (the   *)
(* fund was filtered out: None), "raised" (an exception).  The threads of  *)
(* "multi" are counted in mt: not yet created, waiting for a slot of the   *)
(* pool, asleep in start, in get_quote_history, done.                      *)
(***************************************************************************)
\* multitasking runs each task in a thread of its own, under a pool semaphore
\* whose size is the host's multitasking.config["MAX_THREADS"] (from
\* cpu_count()); the scripts never call set_max_threads
HostPools == {2, MAX_CONNECTIONS + 1}

SchedInit ==
    /\ files = [n \in FileNames |-> NoFile]
    /\ last = NoCall
    /\ batch \in {"pool", "gather", "multi"}
    /\ task = [t \in 1..BatchTasks |-> "new"]
    /\ workers = 0
    /\ semaphore = SEMAPHORE_SLOTS
    /\ main = MainStart
    /\ \E pool \in HostPools :
        mt = IF batch = "multi"
               THEN [NoThreads EXCEPT !.pool = pool,
                                      !.pending = MAX_CONNECTIONS + ExtraCodes]
             ELSE NoThreads

\* how a task ends
Ends == {"returned", "none", "raised"}

Running == {t \in 1..BatchTasks : task[t] = "running"}
Queued == {t \in 1..BatchTasks : task[t] = "queued"}

\* executor.submit(calculate_score_and_filter, fund, ...), fund by fund: the work
\* item is queued and a worker thread is added while there are fewer than
\* max_workers
PoolSubmit ==
    /\ batch = "pool"
    /\ \E t \in 1..BatchTasks :
        /\ task[t] = "new" /\ \A u \in 1..(t - 1) : task[u] # "new"
        /\ task' = [task EXCEPT ![t] = "queued"]
    /\ workers' = IF workers < max_workers THEN workers + 1 ELSE workers
    /\ UNCHANGED << files, last, batch, semaphore, mt, main >>

\* an idle worker takes the oldest work item of the queue
PoolStart ==
    /\ batch = "pool"
    /\ Cardinality(Running) < workers
    /\ \E t \in Queued :
        /\ \A u \in Queued : t <= u
        /\ task' = [task EXCEPT ![t] = "running"]
    /\ UNCHANGED << files, last, batch, workers, semaphore, mt, main >>

\* calculate_score_and_filter returns a row, returns None or raises: the
\* future is done
PoolFinish ==
    /\ batch = "pool"
    /\ \E t \in Running, end \in Ends : task' = [task EXCEPT ![t] = end]
    /\ UNCHANGED << files, last, batch, workers, semaphore, mt, main >>

\* a collect that lets the exception of future.result() out of the loop
collect_reraise(m, t, end) ==
    IF end = "raised" THEN [m EXCEPT !.state = "aborted"]
    ELSE [m EXCEPT !.future = t + 1,
                   !.results = IF end = "returned" THEN @ \cup {t} ELSE @,
                   !.state = IF t = BatchTasks THEN "complete" ELSE @]

\* for future in tqdm(futures): try: result = future.result(); if result:
\* results.append(result) / except Exception: print; after the last future the
\* with block is left and the results are ranked
collect(m, t, end) ==
    [m EXCEPT !.future = t + 1,
              !.results = IF end = "returned" THEN @ \cup {t} ELSE @,
              !.state = IF t = BatchTasks THEN "complete" ELSE @]

\* the loop waits for the futures in the order of submission, once every fund
\* is submitted
PoolCollect ==
    /\ batch = "pool"
    /\ main.state = "running"
    /\ \A t \in 1..BatchTasks : task[t] # "new"
    /\ main.future <= BatchTasks
    /\ task[main.future] \in Ends
    /\ main' = collect(main, main.future, task[main.future])
    /\ UNCHANGED << files, last, batch, task, workers, semaphore, mt >>

\* asyncio.gather(*tasks): every process_fund_details coroutine is scheduled
GatherCreate ==
    /\ batch = "gather"
    /\ \A t \in 1..BatchTasks : task[t] = "new"
    /\ task' = [t \in 1..BatchTasks |-> "queued"]
    /\ UNCHANGED << files, last, batch, workers, semaphore, mt, main >>

\* async with semaphore: entered when a slot is free
GatherEnter ==
    /\ batch = "gather"
    /\ semaphore > 0
    /\ \E t \in Queued : task' = [task EXCEPT ![t] = "running"]
    /\ semaphore' = semaphore - 1
    /\ UNCHANGED << files, last, batch, workers, mt, main >>

\* the block is left (return fund, or an exception): the slot is released
GatherLeave ==
    /\ batch = "gather"
    /\ \E t \in Running, end \in {"returned", "raised"} :
        task' = [task EXCEPT ![t] = end]
    /\ semaphore' = semaphore + 1
    /\ UNCHANGED << files, last, batch, workers, mt, main >>

\* enriched_funds = await asyncio.gather(*tasks, return_exceptions=True)
\* final_results = [item for item in enriched_funds if not isinstance(item,
\* Exception)]
final_results(m, tk) ==
    [m EXCEPT !.future = BatchTasks + 1,
              !.results = {t \in 1..BatchTasks : tk[t] = "returned"},
              !.state = "complete"]

\* gather returns when every coroutine has ended
GatherReturn ==
    /\ batch = "gather"
    /\ main.state = "running"
    /\ \A t \in 1..BatchTasks : task[t] \in Ends
    /\ main' = final_results(main, task)
    /\ UNCHANGED << files, last, batch, task, workers, semaphore, mt >>

\* the threads of get_quote_history_multi that are inside start
Executing == mt.sleep + mt.fetch
\* len(multitasking.get_active_tasks()): the threads that are alive
ActiveTasks == mt.waiting + Executing

\* A thread that has a slot of multitasking's pool enters start (m counts the
\* other threads):
\*   if len(multitasking.get_active_tasks()) >= MAX_CONNECTIONS: time.sleep(3)
\* get_active_tasks is the threads that are alive, this one included
start(m) ==
    IF m.waiting + m.sleep + m.fetch + 1 >= MAX_CONNECTIONS
      THEN [m EXCEPT !.sleep = @ + 1]
    ELSE [m EXCEPT !.fetch = @ + 1]

\* for f in fund_codes: start(f): a thread is created and started; it enters
\* start at once when the pool has a free slot and waits for one otherwise
MultiStart ==
    /\ batch = "multi"
    /\ mt.pending > 0
    /\ mt' = IF Executing < mt.pool
               THEN start([mt EXCEPT !.pending = @ - 1])
             ELSE [mt EXCEPT !.pending = @ - 1, !.waiting = @ + 1]
    /\ UNCHANGED << files, last, batch, task, workers, semaphore, main >>

\* the sleep ends: _df = get_quote_history(fund_code, pz) is called all the same
MultiWake ==
    /\ batch = "multi"
    /\ mt.sleep > 0
    /\ mt' = [mt EXCEPT !.sleep = @ - 1, !.fetch = @ + 1]
    /\ UNCHANGED << files, last, batch, task, workers, semaphore, main >>

\* get_quote_history is over and start returns: the slot goes to a waiting thread
MultiFinish ==
    /\ batch = "multi"
    /\ mt.fetch > 0
    /\ mt' = IF mt.waiting > 0
               THEN start([mt EXCEPT !.fetch = @ - 1, !.done = @ + 1, !.waiting = @ - 1])
             ELSE [mt EXCEPT !.fetch = @ - 1, !.done = @ + 1]
    /\ UNCHANGED << files, last, batch, task, workers, semaphore, main >>

\* get_quote_history raised three times: @retry(tries=3, delay=1) runs start
\* again in the same thread, which keeps its slot and passes the guard again
\* (the tries of a thread are not counted here)
MultiRetry ==
    /\ batch = "multi"
    /\ mt.fetch > 0
    /\ ActiveTasks >= MAX_CONNECTIONS
    /\ mt' = [mt EXCEPT !.fetch = @ - 1, !.sleep = @ + 1]
    /\ UNCHANGED << files, last, batch, task, workers, semaphore, main >>

SchedNext ==
    \/ PoolSubmit
    \/ PoolStart
    \/ PoolFinish
    \/ PoolCollect
    \/ GatherCreate
    \/ GatherEnter
    \/ GatherLeave
    \/ GatherReturn
    \/ MultiStart
    \/ MultiWake
    \/ MultiFinish
    \/ MultiRetry

SpecSched == SchedInit /\ [][SchedNext]_vars

\* the two batches that collect results, with threads and coroutines that keep
\* running: every request has a timeout, so a task that runs ends
BatchInit == SchedInit /\ batch \in {"pool", "gather"}

BatchNext ==
    \/ PoolSubmit
    \/ PoolStart
    \/ PoolFinish
    \/ PoolCollect
    \/ GatherCreate
    \/ GatherEnter
    \/ GatherLeave
    \/ GatherReturn

SpecBatch == BatchInit /\ [][BatchNext]_vars /\ WF_vars(BatchNext)


(***************************************************************************)
(* Properties of the cache (SpecCache)                                     *)
(***************************************************************************)
CachedFetches ==
    {"get_fund_fee", "get_fund_net_values", "get_fund_company_info",
     "get_all_funds_from_eastmoney", "get_fund_realtime_estimate"}

\* the value of the latest call is the value v that the file held
ReturnsStored ==
    CASE last.fn \in {"get_fund_fee", "get_all_funds_from_eastmoney"} ->
            last.ret = last.before.v
      [] last.fn \in {"get_fund_company_info", "get_fund_realtime_estimate"} ->
            last.ret = Some(last.before.v)
      [] last.fn = "get_fund_net_values" ->
            /\ last.ret.df = last.before.v.df
            /\ last.ret.latest_value = last.before.v.latest_value
      [] OTHER -> FALSE

\* the value of the latest call is the value that its request fetched
ReturnsFetched ==
    CASE last.fn \in {"get_fund_fee", "get_all_funds_from_eastmoney"} ->
            last.ret = last.fetched[1]
      [] last.fn \in {"get_fund_company_info", "get_fund_realtime_estimate"} ->
            last.ret = last.fetched
      [] last.fn = "get_fund_net_values" ->
            /\ last.ret.df = last.fetched[1].df
            /\ last.ret.latest_value = last.fetched[1].latest_value
      [] OTHER -> FALSE

\* C1: when get_fund_fee, get_fund_net_values, get_fund_company_info or
\* get_all_funds_from_eastmoney is called for a key whose file holds the value v
\* an earlier call stored, the call returns exactly v and makes no request.
C1_HitReturnsStored ==
    (/\ last.fn \in {"get_fund_fee", "get_fund_net_values", "get_fund_company_info",
                     "get_all_funds_from_eastmoney"}
     /\ last.before.kind = "pickle")
        => (last.net = 0 /\ ReturnsStored)

\* C1 witness: a get_fund_fee call that found the stored fee 3.0 and returned it
C1_Witness ==
    /\ last.fn = "get_fund_fee"
    /\ last.before.kind = "pickle"
    /\ last.before.v = 30
    /\ last.ret = 30
    /\ last.net = 0

\* C2: a call of a cached function whose entry is absent or older than its
\* time-to-live is a miss: it makes a fresh request; no call returns an entry
\* that is past its time-to-live.
C2_NoReadPastTtl ==
    (/\ last.fn \in CachedFetches
     /\ (last.before.kind = "absent" \/ last.before.stale))
        => last.net > 0

\* C3: a call whose cache file cannot be read or cannot be written is like a
\* miss: it makes the request, returns the value that the request fetched, and
\* the run goes on.
C3_CacheFailureIsMiss ==
    /\ (last.fn \in CachedFetches /\ last.before.kind = "corrupt") => last.net > 0
    /\ (last.fn \in CachedFetches /\ last.wfailed) => (ReturnsFetched /\ ~last.exited)

\* C4: every row of a series that get_fund_net_values returns is dated inside
\* the [start_date, end_date] of the call, on a cache hit as well.
C4_SeriesInsideRange ==
    (last.fn = "get_fund_net_values" /\ ~last.raised)
        => \A i \in 1..Len(last.ret.df) :
              /\ last.ret.df[i].date >= last.args[1]
              /\ last.ret.df[i].date <= last.args[2]

\* a provider of the latest call, invoked without success
Failed(p) == \E i \in 1..Len(last.calls) : last.calls[i] = Invoked(p, FALSE)

\* C9: get_fund_net_values returns either a success (at least MIN_DAYS rows, a
\* latest value, the source cache, pingzhongdata or lsjz) or a failure (no rows,
\* no latest value, the source 'None'), the failure only after pingzhongdata
\* and lsjz both failed; it returns in every case.
C9_OneOfTwoShapes ==
    last.fn = "get_fund_net_values"
        => /\ ~last.raised
           /\ \/ /\ long_enough(last.ret.df)
                 /\ last.ret.latest_value # None
                 /\ last.ret.source \in {"cache", "pingzhongdata", "lsjz"}
              \/ /\ last.ret.df = << >>
                 /\ last.ret.latest_value = None
                 /\ last.ret.source = "None"
                 /\ Failed("pingzhongdata") /\ Failed("lsjz")


(***************************************************************************)
(* Properties of the fetch functions (SpecFetch)                           *)
(***************************************************************************)
AllTransient(plan) == \A i \in 1..tries_num : plan[i] = "reqexc"

FirstSuccess(plan, k) == plan[k] = "ok" /\ \A j \in 1..(k - 1) : plan[j] = "reqexc"

\* C5: when every attempt of a getURL call fails with a RequestException the
\* call makes exactly tries_num attempts and returns None; when attempt k is the
\* first to succeed the call makes exactly k attempts and returns the response.
C5_AttemptsOfGetURL ==
    last.fn = "getURL"
        => /\ last.net = Len(last.calls)
           /\ AllTransient(last.args)
                => (Len(last.calls) = tries_num /\ last.ret = None)
           /\ \A k \in 1..tries_num :
                FirstSuccess(last.args, k)
                    => /\ last.calls = SubSeq(last.args, 1, k)
                       /\ last.ret # None

\* C5 witness: a getURL call all of whose tries_num attempts failed
C5_Witness ==
    /\ last.fn = "getURL"
    /\ AllTransient(last.args)
    /\ Len(last.calls) = tries_num
    /\ last.ret = None

\* C6: an attempt of getURL, get_quote_history or get_period_change that fails
\* on a malformed response (no JSON, a missing field) is the last attempt of the
\* call: no retry wrapper makes another attempt after it.
C6_NonTransientNotRetried ==
    last.fn \in {"getURL", "get_quote_history", "get_period_change"}
        => \A i \in 1..Len(last.calls) :
              last.calls[i] \in NonTransient => i = Len(last.calls)

\* the latest call invoked provider p
InvokedProvider(p) == \E i \in 1..Len(last.calls) : last.calls[i].p = p

\* C8: a get_realtime_valuation call whose fundgz fetch failed, getURL returning
\* None included, has invoked the yfinance fallback when it returns.
C8_FallbackAfterPrimaryFailure ==
    (last.fn = "get_realtime_valuation" /\ Failed("fundgz"))
        => InvokedProvider("yfinance")

(***************************************************************************)
(* Properties of the fallback chains (SpecChain)                           *)
(***************************************************************************)
\* the place of a provider in its chain
Rank(p) ==
    CASE p \in {"cache", "eastmoney"} -> 1
      [] p \in {"pingzhongdata", "akshare"} -> 2
      [] p = "lsjz" -> 3

ChainOf(fn) ==
    IF fn = "get_fund_net_values" THEN {"cache", "pingzhongdata", "lsjz"}
    ELSE {"eastmoney", "akshare"}

C10_BoundedParallelism ==
    /\ batch = "pool" => Cardinality(Running) <= max_workers
    /\ batch = "gather" => Cardinality(Running) <= SEMAPHORE_SLOTS
    /\ batch = "multi" => Executing <= MAX_CONNECTIONS


\* C11: in the thread-pool batch and in the gather batch no exception of a task
\* ends the batch; the batch completes, and then every task has run to its end
\* and the result of every task that returned one is among the results.
C11_FailureDoesNotAbort ==
    /\ [](main.state # "aborted")
    /\ [](main.state = "complete"
            => \A t \in 1..BatchTasks :
                  /\ task[t] \in Ends
                  /\ t \in main.results <=> task[t] = "returned")
    /\ <>(main.state = "complete")

\* C11 witness: a complete thread-pool batch whose first task raised and whose
\* other tasks' results are all collected
C11_Witness ==
    /\ batch = "pool"
    /\ main.state = "complete"
    /\ task[1] = "raised"
    /\ main.results = 2..BatchTasks


(***************************************************************************)
(* fund_detailed_screener: the enrichment of a fund and the output file    *)
(***************************************************************************)
\* what happens to one fund
\*   row       FALSE: the row has no fund code, process_fund_details raises
\*   manager   the fetch of the manager page: "ok", or "error" (the request
\*             failed or timed out, or the parse raised)
\*   holdings  the same for the holdings page
DetailOutcomes == [row : BOOLEAN, manager : {"ok", "error"}, holdings : {"ok", "error"}]

\* (manager_name, error): (None, error) when fetch_web_data_async or the parse
\* failed
get_manager_info(code, outcome) ==
    IF outcome = "ok" THEN [manager_name |-> Some("manager"), error |-> None]
    ELSE [manager_name |-> None, error |-> Some("error")]

\* (holdings_str, error)
get_holdings_info(code, outcome) ==
    IF outcome = "ok" THEN [holdings_str |-> Some("holdings"), error |-> None]
    ELSE [holdings_str |-> None, error |-> Some("error")]

\* the errors are printed; the fund is returned with what the fetches gave
process_fund_details(fund, d) ==
    IF ~d.row THEN [kind |-> "exception", code |-> fund, manager |-> None, holdings |-> None]
    ELSE [kind |-> "fund", code |-> fund,
          manager |-> get_manager_info(fund, d.manager).manager_name,
          holdings |-> get_holdings_info(fund, d.holdings).holdings_str]

\* enriched_funds = await asyncio.gather(*tasks, return_exceptions=True)
\* final_results = [item for item in enriched_funds if not isinstance(item,
\* Exception)]: the rows of fund_details_enriched.csv
enrich(plan) ==
    LET enriched_funds == [f \in 1..DetailFunds |-> process_fund_details(f, plan[f])]
    IN  SelectSeq(enriched_funds, LAMBDA item : item.kind # "exception")

MainEnrich ==
    /\ UNCHANGED << files, schedVars >>
    /\ \E plan \in [1..DetailFunds -> DetailOutcomes] :
        last' = Last("fund_detailed_screener.main", "", plan, NoFile,
                     [ret |-> enrich(plan),
                      net |-> 2 * Cardinality({f \in 1..DetailFunds : plan[f].row}),
                      fetched |-> None,
                      wfailed |-> FALSE, calls |-> << >>, raised |-> FALSE], FALSE)

SpecDetail == CacheInit /\ [][MainEnrich]_vars

\* C12: the enriched output of fund_detailed_screener holds no fund whose
\* manager fetch or holdings fetch returned an error.
C12_FailedFetchExcluded ==
    last.fn = "fund_detailed_screener.main"
        => \A i \in 1..Len(last.ret) :
              /\ last.args[last.ret[i].code].manager = "ok"
              /\ last.args[last.ret[i].code].holdings = "ok"


(***************************************************************************)
(* SIGINT during the thread-pool batch of fund_screener.py                 *)
(*   signal.signal(signal.SIGINT, multitasking.killall)                    *)
(* killall sets KILL_RECEIVED and leaves through sys.exit(0), os._exit(0)  *)
(* in its except SystemExit: the process ends inside the handler.          *)
(***************************************************************************)
\* the cache directory that an earlier run left
EarlierRun ==
    [n \in FileNames |->
        IF n = <<"fee", "000001">> THEN Pickled(8)
        ELSE IF n = <<"company", "000001">> THEN Pickled("E Fund")
        ELSE NoFile]

CancelInit ==
    /\ files = EarlierRun
    /\ last = NoCall
    /\ batch = "pool"
    /\ task = [t \in 1..BatchTasks |-> "new"]
    /\ workers = 0
    /\ semaphore = SEMAPHORE_SLOTS
    /\ main = MainStart
    /\ mt = NoThreads

\* the files that a running task may be writing: it writes only where it found
\* no readable entry (get_fund_net_values, lines 690-697)
BeingWritten ==
    {n \in FileNames : n[1] = "net_values" /\ files[n].kind # "pickle"}

\* Ctrl-C: the main thread runs killall and the process ends at once.  No task
\* gets an outcome, no result is collected or saved; a pickle.dump that a
\* worker was in the middle of leaves a truncated file.
Sigint ==
    /\ batch = "pool"
    /\ main.state = "running"
    /\ main' = [main EXCEPT !.state = "killed"]
    /\ \/ files' = files
       \/ /\ Running # {}
          /\ \E n \in BeingWritten : files' = [files EXCEPT ![n] = Corrupt]
    /\ UNCHANGED << last, batch, task, workers, semaphore, mt >>

\* the process is alive
Alive(A) == main.state # "killed" /\ A

CancelNext ==
    \/ Alive(PoolSubmit)
    \/ Alive(PoolStart)
    \/ Alive(PoolFinish)
    \/ Alive(PoolCollect)
    \/ Sigint

SpecCancel == CancelInit /\ [][CancelNext]_vars /\ WF_vars(CancelNext)

\* C13: after a run is cancelled every cache entry written before is intact,
\* and every task that was in flight or not yet started comes to an outcome
\* (its own end, or Cancelled).
C13_CancelledOutcome ==
    /\ [](main.state = "killed"
            => \A n \in FileNames :
                  EarlierRun[n].kind = "pickle" => files[n] = EarlierRun[n])
    /\ (main.state = "killed")
          ~> (\A t \in 1..BatchTasks : task[t] \in Ends \cup {"cancelled"})


(***************************************************************************)
(* The 4-4-3-3 pre-filter: get_fund_rankings of advanced_fund_screener and  *)
(* of integrated_fund_screener, and apply_4433_rule                         *)
(***************************************************************************)
\* the funds of the ranking pages; their codes are ordered as the numbers
NumFunds == 3
Funds == 1..NumFunds

\* the values of allRecords the ranking server reports
SmallMarket == 5
LargeMarket == 8

\* the keys of the periods dict, in the order the loop visits them
periods == << "3y", "2y", "1y", "6m", "3m" >>

\* head(50) of main
TOP_ROWS == 50

\* data['datas'] of one answer: the funds in the order the server ranks them
Rankings ==
    {r \in UNION {[1..n -> Funds] : n \in 1..NumFunds} :
        \A i, j \in DOMAIN r : r[i] = r[j] => i = j}

\* the try body of one period raised (getURL gave None, the text is no JSON,
\* datas is empty so that df[[0, 1, 3]] raises KeyError)
NoRanking == [ok |-> FALSE, records |-> << >>, total |-> 0]

LoadedRankings == [ok : {TRUE}, records : Rankings, total : {SmallMarket, LargeMarket}]

\* a cell of a rank_r column: rank / total, or NaN where a join found no row
NoCell == [nan |-> TRUE, rank |-> 0, total |-> 0]

\* pd.DataFrame(): no rows, no columns
EmptyFrame == [index |-> << >>, index_name |-> "", columns |-> {}, cells |-> << >>]

Members(seq) == {seq[i] : i \in DOMAIN seq}

\* df.empty
empty(df) == df.index = << >> \/ df.columns = {}

\* the frame the try body builds from one answer: rank is the position of the
\* row, rank_r is rank / total, the index is the code column
period_frame(p, resp) ==
    [index |-> resp.records, index_name |-> "code",
     columns |-> {<<"name", "">>, <<"rose", p>>, <<"rank", p>>, <<"rank_r", p>>},
     cells |-> p :> [f \in Members(resp.records) |->
                        [nan |-> FALSE,
                         rank |-> CHOOSE i \in DOMAIN resp.records : resp.records[i] = f,
                         total |-> resp.total]]]

\* what a step of get_fund_rankings hands on: a frame, or the exception that
\* left the function
Frame(df) == [raised |-> FALSE, df |-> df, saved |-> FALSE]
ValueError == [raised |-> TRUE, df |-> EmptyFrame, saved |-> FALSE]

RECURSIVE sorted(_)
sorted(S) ==
    IF S = {} THEN << >>
    ELSE LET m == CHOOSE x \in S : \A y \in S : x <= y
         IN  << m >> \o sorted(S \ {m})

\* the index of left.join(right, how=how).  inner: the rows of left that right
\* has, in the order of left.  outer: the union; pandas sorts it or keeps the
\* order of appearance, depending on the version and on whether a side is
\* empty (sorts)
join_index(left, right, how, sorts) ==
    IF how = "inner"
    THEN SelectSeq(left.index, LAMBDA f : f \in Members(right.index))
    ELSE IF sorts
         THEN sorted(Members(left.index) \cup Members(right.index))
         ELSE left.index
                \o SelectSeq(right.index, LAMBDA f : f \notin Members(left.index))

\* DataFrame.join(other, how=how) with no lsuffix and no rsuffix: a column
\* name on both sides raises ValueError("columns overlap but no suffix
\* specified"); otherwise the columns of both, NaN where a side has no row
join(left, right, how, sorts) ==
    IF left.columns \cap right.columns # {}
    THEN ValueError
    ELSE LET idx == join_index(left, right, how, sorts)
             side(p) == IF p \in DOMAIN left.cells THEN left.cells[p]
                        ELSE right.cells[p]
         IN  Frame([index |-> idx,
                    index_name |-> IF left.index_name = right.index_name
                                   THEN left.index_name ELSE "",
                    columns |-> left.columns \cup right.columns,
                    cells |-> [p \in DOMAIN left.cells \cup DOMAIN right.cells |->
                                 [f \in Members(idx) |->
                                    IF f \in DOMAIN side(p) THEN side(p)[f]
                                    ELSE NoCell]]])

\* rule_thresholds / thresholds, as fractions: 0.25 and 1/3
thresholds(p) == IF p \in {"3y", "2y", "1y"} THEN << 1, 4 >> ELSE << 1, 3 >>

\* filtered_df[rank_col] <= threshold for one row; NaN <= x is False
within(cell, p) ==
    /\ ~cell.nan
    /\ cell.rank * thresholds(p)[2] <= cell.total * thresholds(p)[1]

\* the loop over the thresholds: a period filters when its rank_r column is
\* in the frame
apply_4433_rule(df) ==
    LET keeps(f) == \A i \in DOMAIN periods :
                        <<"rank_r", periods[i]>> \in df.columns
                            => within(df.cells[periods[i]][f], periods[i])
        idx == SelectSeq(df.index, keeps)
    IN  [df EXCEPT !.index = idx,
                   !.cells = [p \in DOMAIN df.cells |->
                                [f \in Members(idx) |-> df.cells[p][f]]]]

\* reset_index().rename(columns={'index': 'fund_code', 'name': 'fund_name'}):
\* the index becomes a column called by the name of the index, or 'index'
\* when it has none
reset_index_rename(df) ==
    [df EXCEPT !.index_name = "",
               !.columns = {c \in @ : c # <<"name", "">>}
                             \cup (IF <<"name", "">> \in @
                                   THEN {<<"fund_name", "">>} ELSE {})
                             \cup {<<IF df.index_name = "" THEN "fund_code"
                                     ELSE df.index_name, "">>}]

\* the loop "for df in all_data[1:]" of either version, from position i on
RECURSIVE merge(_, _, _, _, _, _)
merge(acc, all_data, i, how, skip_empty, sorts) ==
    IF acc.raised \/ i > Len(all_data) THEN acc
    ELSE IF skip_empty /\ empty(all_data[i])
         THEN merge(acc, all_data, i + 1, how, skip_empty, sorts)
         ELSE merge(join(acc.df, all_data[i], how, sorts),
                    all_data, i + 1, how, skip_empty, sorts)

\* advanced_fund_screener.get_fund_rankings: a failed period appends an empty
\* frame, the join is outer and starts from the frame of the first period
advanced_get_fund_rankings(resp, sorts) ==
    LET all_data == [i \in DOMAIN periods |->
                        IF resp[i].ok THEN period_frame(periods[i], resp[i])
                        ELSE EmptyFrame]
        merged_df == merge(Frame(all_data[1]), all_data, 2, "outer", TRUE, sorts)
    IN  IF \A i \in DOMAIN all_data : empty(all_data[i]) THEN Frame(EmptyFrame)
        ELSE IF merged_df.raised THEN ValueError
        ELSE Frame(reset_index_rename(apply_4433_rule(merged_df.df)))

\* integrated_fund_screener.get_fund_rankings: a failed period appends
\* nothing, the join is inner, the result is saved to fund_rankings.csv
integrated_get_fund_rankings(resp) ==
    LET loaded == SelectSeq([i \in DOMAIN periods |-> i], LAMBDA i : resp[i].ok)
        all_data == [k \in DOMAIN loaded |->
                        period_frame(periods[loaded[k]], resp[loaded[k]])]
        df_final == merge(Frame(all_data[1]), all_data, 2, "inner", FALSE, FALSE)
    IN  IF loaded = << >> THEN Frame(EmptyFrame)
        ELSE IF df_final.raised THEN ValueError
        ELSE [df_final EXCEPT !.saved = TRUE]

\* the pre-filter of the integrated screener: apply_4433_rule on the table
\* of get_fund_rankings
integrated_prefilter(resp) ==
    LET df == integrated_get_fund_rankings(resp)
    IN  IF df.raised THEN df ELSE [df EXCEPT !.df = apply_4433_rule(@)]

\* filtered_df.head(50)
head(df) == SubSeq(df.index, 1, IF Len(df.index) < TOP_ROWS THEN Len(df.index) ELSE TOP_ROWS)

\* the answers of the five requests of one call: each period fails or loads
\* one of two ranking pages
RankingAnswers ==
    UNION {[DOMAIN periods -> {NoRanking, a, b}] : a, b \in LoadedRankings}

Ranked(fn, resp, sorts, table) ==
    Last(fn, "", [resp |-> resp, sorts |-> sorts], NoFile,
         [ret |-> table, net |-> Len(periods), fetched |-> None,
          wfailed |-> FALSE, calls |-> << >>, raised |-> table.raised], FALSE)

\* main calls get_fund_rankings once in a run
CallAdvancedGetFundRankings ==
    /\ last = NoCall
    /\ UNCHANGED << files, schedVars >>
    /\ \E resp \in RankingAnswers, sorts \in BOOLEAN :
        last' = Ranked("advanced.get_fund_rankings", resp, sorts,
                       advanced_get_fund_rankings(resp, sorts))

CallIntegratedPrefilter ==
    /\ last = NoCall
    /\ UNCHANGED << files, schedVars >>
    /\ \E resp \in RankingAnswers :
        last' = Ranked("integrated.apply_4433_rule", resp, FALSE,
                       integrated_prefilter(resp))

RankNext == CallAdvancedGetFundRankings \/ CallIntegratedPrefilter

SpecRank == CacheInit /\ [][RankNext]_vars


\* the funds some loaded window lists
Listed(resp) == UNION {Members(resp[i].records) : i \in DOMAIN periods}

\* rank / total of fund f in window i is within the threshold of the window
WithinThreshold(resp, i, f) ==
    \E k \in DOMAIN resp[i].records :
        /\ resp[i].records[k] = f
        /\ k * thresholds(periods[i])[2] <= resp[i].total * thresholds(periods[i])[1]

\* the rule of the 4-4-3-3 pre-filter as the specification words it: present
\* and within the threshold in every window that loaded
Qualifies(resp, f) ==
    \A i \in DOMAIN periods : resp[i].ok => WithinThreshold(resp, i, f)

Prefiltered == last.fn \in {"advanced.get_fund_rankings", "integrated.apply_4433_rule"}

\* C14: a fund survives the 4-4-3-3 pre-filter exactly when, in every window
\* that loaded, it is listed with rank/total within the threshold (a window
\* that failed to load is skipped), and the outer-join version and the
\* inner-join version give the same survivors.
C14_PrefilterRule ==
    Prefiltered
        => /\ ~last.raised
           /\ Members(last.ret.df.index)
                 = {f \in Listed(last.args.resp) : Qualifies(last.args.resp, f)}
           /\ \A sorts \in BOOLEAN :
                 LET adv == advanced_get_fund_rankings(last.args.resp, sorts)
                     int == integrated_prefilter(last.args.resp)
                 IN  /\ adv.raised = int.raised
                     /\ Members(adv.df.index) = Members(int.df.index)


\* the scenario of C15 with A = 1, B = 2, C = 3: the five windows load; A is
\* within the threshold in all of them; B is at the 40th percentile of the
\* 6-month window; C is not in the 2-year snapshot and is within the
\* threshold wherever it is listed
ScenarioABC(resp) ==
    /\ \A i \in DOMAIN periods : resp[i].ok /\ WithinThreshold(resp, i, 1)
    /\ \E k \in DOMAIN resp[4].records :
          resp[4].records[k] = 2 /\ k * 5 = resp[4].total * 2
    /\ 3 \notin Members(resp[2].records)
    /\ \E i \in DOMAIN periods : 3 \in Members(resp[i].records)
    /\ \A i \in DOMAIN periods :
          3 \in Members(resp[i].records) => WithinThreshold(resp, i, 3)

\* C15: for the universe {A, B, C}, A within the threshold in all five
\* windows, B at the 40th percentile of the 6-month window and C missing from
\* the 2-year snapshot, the output of the pre-filter is exactly {A, C}.
C15_ScenarioOutput ==
    (Prefiltered /\ ScenarioABC(last.args.resp))
        => /\ ~last.raised
           /\ Members(last.ret.df.index) = {1, 3}


\* the funds that qualify, best rank of the 3-year window first
BestRanked(resp) == SelectSeq(resp[1].records, LAMBDA f : Qualifies(resp, f))

\* C16: the survivors are returned in the order of their rank in the 3-year
\* window, so the first 50 rows main takes are the 50 best-ranked survivors
\* of that window.
C16_SortedByLongestWindow ==
    (last.fn = "advanced.get_fund_rankings" /\ last.args.resp[1].ok)
        => /\ ~last.raised
           /\ last.ret.df.index = BestRanked(last.args.resp)
           /\ head(last.ret.df)
                 = SubSeq(BestRanked(last.args.resp), 1, Len(head(last.ret.df)))


\* C17: whatever windows load or fail, get_fund_rankings ends with a table
\* of survivors (which may be empty) and never raises.
C17_RankingsNeverRaise ==
    Prefiltered
        => /\ last.raised = FALSE
           /\ Members(last.ret.df.index) \subseteq Listed(last.args.resp)


(***************************************************************************)
(* The metrics: calculate_metrics of fund_screener and analyze_fund of      *)
(* integrated_fund_screener                                                 *)
(***************************************************************************)
\* the trading days of a year, in the annualisations
TRADING_DAYS == 252
\* the net values of the series of the model
MaxNetValue == 3
NetValueLevels == 1..MaxNetValue

\* the lengths of the series: a few points, and around MIN_DAYS
SeriesLengths == (0..Slack) \cup ((MIN_DAYS - Slack)..(MIN_DAYS + Slack))

\* a series of n rows: a and b in turn, c last
net_value_rows(n, a, b, c) ==
    [i \in 1..n |-> [date |-> i,
                     net_value |-> IF i = n THEN c ELSE IF i % 2 = 0 THEN b ELSE a]]

\* a float: the number (p / q) * sqrt(r[1] / r[2]) with q > 0, NaN, an
\* infinity, or ("expr") a finite number the model does not compute
Num(p, q) == [kind |-> "num", p |-> p, q |-> q, r |-> << 1, 1 >>]
Root(p, q) == [kind |-> "num", p |-> 1, q |-> 1, r |-> << p, q >>]
NotANumber == [kind |-> "nan", p |-> 0, q |-> 1, r |-> << 1, 1 >>]
Infinity(sign) ==
    [kind |-> IF sign < 0 THEN "-inf" ELSE "inf", p |-> 0, q |-> 1, r |-> << 1, 1 >>]
Finite == [kind |-> "expr", p |-> 0, q |-> 1, r |-> << 1, 1 >>]

IsZero(x) == x.kind = "num" /\ (x.p = 0 \/ x.r[1] = 0)
IsPositive(x) == x.kind = "inf" \/ (x.kind = "num" /\ x.p > 0 /\ x.r[1] > 0)
IsNegative(x) == x.kind = "-inf" \/ (x.kind = "num" /\ x.p < 0 /\ x.r[1] > 0)

\* x / y of two numpy floats: a division by 0.0 gives an infinity or NaN and
\* raises nothing
float_div(x, y) ==
    IF x.kind = "nan" \/ y.kind = "nan" THEN NotANumber
    ELSE IF IsZero(y)
         THEN IF IsZero(x) THEN NotANumber
              ELSE Infinity(IF IsNegative(x) THEN 0 - 1 ELSE 1)
    ELSE [kind |-> "num",
          p |-> IF y.p < 0 THEN 0 - (x.p * y.q) ELSE x.p * y.q,
          q |-> x.q * (IF y.p < 0 THEN 0 - y.p ELSE y.p),
          r |-> << x.r[1] * y.r[2], x.r[2] * y.r[1] >>]

RECURSIVE Product(_)
Product(S) ==
    IF S = {} THEN 1
    ELSE LET x == CHOOSE y \in S : TRUE IN x * Product(S \ {x})

\* the sum of s[lo..hi]
RECURSIVE Sum(_, _, _)
Sum(s, lo, hi) ==
    IF lo > hi THEN 0
    ELSE IF lo = hi THEN s[lo]
    ELSE LET mid == (lo + hi) \div 2
         IN  Sum(s, lo, mid) + Sum(s, mid + 1, hi)

\* a common denominator of the daily returns of df
Denominator(df) == Product({df[i].net_value : i \in DOMAIN df})

\* df[column].pct_change(): NaN for the first row, then v[i] / v[i-1] - 1, here
\* as the integer x with x / Denominator(df) the return
pct_change(df) ==
    [i \in DOMAIN df |->
        IF i = 1 THEN [nan |-> TRUE, x |-> 0]
        ELSE [nan |-> FALSE,
              x |-> (df[i].net_value - df[i - 1].net_value)
                        * (Denominator(df) \div df[i - 1].net_value)]]

\* the numbers of a column that are not NaN
notna(col) ==
    LET kept == SelectSeq(col, LAMBDA c : ~c.nan)
    IN  [i \in DOMAIN kept |-> kept[i].x]

\* Series.mean() of returns x / d
mean(xs, d) ==
    IF xs = << >> THEN NotANumber ELSE Num(Sum(xs, 1, Len(xs)), d * Len(xs))

\* Series.std() (ddof = 1) of returns x / d: NaN with fewer than two numbers
std(xs, d) ==
    LET m == Len(xs)
        S == Sum(xs, 1, m)
        Q == Sum([i \in DOMAIN xs |-> xs[i] * xs[i]], 1, m)
    IN  IF m < 2 THEN NotANumber
        ELSE Root(m * Q - S * S, d * d * m * (m - 1))

\* x * np.sqrt(252) of a std
annualize(x) ==
    IF x.kind = "nan" THEN x ELSE [x EXCEPT !.r = << TRADING_DAYS * @[1], @[2] >>]

\* calculate_metrics(df): None, or the three metrics; annual_return is kept
\* as base ** (exponent[1] / exponent[2]) - 1
calculate_metrics(df) ==
    LET daily_return == pct_change(df)
        annual_volatility == annualize(std(notna(daily_return), Denominator(df)))
    IN  IF df = << >> \/ Len(df) < MIN_DAYS THEN None
        ELSE IF \A i \in DOMAIN daily_return : daily_return[i].nan THEN None
        ELSE Some([annual_return |->
                       [base |-> << df[Len(df)].net_value, df[1].net_value >>,
                        exponent |-> << TRADING_DAYS, Len(df) >>],
                   annual_volatility |-> annual_volatility,
                   sharpe_ratio |-> IF IsPositive(annual_volatility) THEN Finite
                                    ELSE Num(0, 1)])

\* analyze_fund from the frame get_fund_data (or yfinance) gave; failed: the
\* download raised or gave no frame
AnalysisError(text) == [error |-> text]
analyze_fund(failed, df) ==
    LET d == Denominator(df)
        returns == notna(pct_change(df))
        m == Len(returns)
        annual_returns == Num(TRADING_DAYS * Sum(returns, 1, m), d * m)
        annual_volatility == annualize(std(returns, d))
        \* annual_returns - 0.03
        excess == Num(annual_returns.p * 100 - 3 * annual_returns.q,
                      annual_returns.q * 100)
        hi == CHOOSE x \in Members(returns) : \A y \in Members(returns) : y <= x
        lo == CHOOSE x \in Members(returns) : \A y \in Members(returns) : x <= y
    IN  IF failed THEN AnalysisError("download")
        ELSE IF returns = << >> THEN AnalysisError("returns")
        ELSE [error |-> "",
              annual_returns |-> annual_returns,
              annual_volatility |-> annual_volatility,
              sharpe_ratio |-> float_div(excess, annual_volatility),
              max_drawdown |-> float_div(Num(hi - lo, d), Num(hi, d))]

Measured(fn, df, ret) ==
    Last(fn, "", df, NoFile,
         [ret |-> ret, net |-> 0, fetched |-> None, wfailed |-> FALSE,
          calls |-> << >>, raised |-> FALSE], FALSE)

CallCalculateMetrics ==
    /\ last = NoCall
    /\ UNCHANGED << files, schedVars >>
    /\ \E n \in SeriesLengths, a, b, c \in NetValueLevels :
        LET df == net_value_rows(n, a, b, c)
        IN  last' = Measured("calculate_metrics", df, calculate_metrics(df))

CallAnalyzeFund ==
    /\ last = NoCall
    /\ UNCHANGED << files, schedVars >>
    /\ \E failed \in BOOLEAN, n \in SeriesLengths, a, b, c \in NetValueLevels :
        LET df == IF failed THEN << >> ELSE net_value_rows(n, a, b, c)
        IN  last' = Measured("analyze_fund", df, analyze_fund(failed, df))

MetricsNext == CallCalculateMetrics \/ CallAnalyzeFund

SpecMetrics == CacheInit /\ [][MetricsNext]_vars


\* C18: calculate_metrics annualizes with the exponent 252 / n, n the number
\* of daily returns (the points minus one), and returns None whenever n is
\* below MIN_DAYS.
C18_AnnualizationExponent ==
    last.fn = "calculate_metrics"
        => LET n == Len(last.args) - 1
           IN  /\ n < MIN_DAYS => last.ret = None
               /\ last.ret # None
                    => last.ret[1].annual_return.exponent = << TRADING_DAYS, n >>

\* every point of the series has the same value, and there are MIN_DAYS or more
ConstantSeries(df) ==
    /\ Len(df) >= MIN_DAYS
    /\ \A i \in DOMAIN df : df[i].net_value = df[1].net_value

\* C19: for a series of at least min_days points of one value, volatility is
\* 0, the Sharpe ratio is 0 (not NaN, not infinite) and the max drawdown is
\* 0, in calculate_metrics and in analyze_fund.
C19_ConstantSeries ==
    /\ (last.fn = "calculate_metrics" /\ ConstantSeries(last.args))
          => /\ last.ret # None
             /\ IsZero(last.ret[1].annual_volatility)
             /\ IsZero(last.ret[1].sharpe_ratio)
             /\ "max_drawdown" \in DOMAIN last.ret[1]
             /\ IsZero(last.ret[1].max_drawdown)
    /\ (last.fn = "analyze_fund" /\ ConstantSeries(last.args))
          => /\ last.ret.error = ""
             /\ IsZero(last.ret.annual_volatility)
             /\ IsZero(last.ret.sharpe_ratio)
             /\ IsZero(last.ret.max_drawdown)

\* C20: for every series the max drawdown reported is <= 0 and the annualized
\* volatility is >= 0.
C20_SignsOfRiskMetrics ==
    /\ (last.fn = "analyze_fund" /\ last.ret.error = "")
          => /\ IsZero(last.ret.max_drawdown) \/ IsNegative(last.ret.max_drawdown)
             /\ IsZero(last.ret.annual_volatility)
                  \/ IsPositive(last.ret.annual_volatility)
    /\ (last.fn = "calculate_metrics" /\ last.ret # None)
          => \/ IsZero(last.ret[1].annual_volatility)
             \/ IsPositive(last.ret[1].annual_volatility)


(***************************************************************************)
(* The composite score: calculate_composite_score of advanced_fund_screener *)
(***************************************************************************)
\* the rows of a frame to score, and the values a metric takes (or NaN)
ScoredFunds == 3
MetricLevels == 2
MetricValues == {NaN} \cup (1..MetricLevels)

\* the metric columns, with the score column each one feeds; rank(1y) comes
\* last and only when the frame has the column
metrics == << "sharpe_ratio", "max_drawdown", "manager_term", "concentration", "rank(1y)" >>
\* the columns whose score is 1 - (x - min) / (max - min)
lower_is_better == {"max_drawdown", "concentration", "rank(1y)"}

\* the weights dict, in hundredths
weights(m, has_rank) ==
    IF has_rank
    THEN CASE m = "sharpe_ratio" -> 30 [] m = "max_drawdown" -> 20
           [] m = "manager_term" -> 20 [] m = "concentration" -> 10
           [] m = "rank(1y)" -> 20
    ELSE CASE m = "sharpe_ratio" -> 35 [] m = "max_drawdown" -> 25
           [] m = "manager_term" -> 25 [] m = "concentration" -> 15
           [] m = "rank(1y)" -> 0

\* the columns the weights dict names
weighted(has_rank) ==
    {metrics[k] : k \in {j \in DOMAIN metrics : has_rank \/ metrics[j] # "rank(1y)"}}

\* one row of the frame main builds: get_fund_details gives sharpe_ratio and
\* max_drawdown both, or NaN for both
MetricRows ==
    {row \in [sharpe_ratio : MetricValues, max_drawdown : MetricValues,
              manager_term : MetricValues, concentration : MetricValues] :
        row.sharpe_ratio = NaN <=> row.max_drawdown = NaN}

value(row, m) ==
    CASE m = "sharpe_ratio" -> row.sharpe_ratio
      [] m = "max_drawdown" -> row.max_drawdown
      [] m = "manager_term" -> row.manager_term
      [] m = "concentration" -> row.concentration
      [] m = "rank(1y)" -> row.rank1y

\* df.dropna(subset=[the four metrics], how='all')
dropna_all(df) ==
    SelectSeq(df, LAMBDA row : \E k \in 1..4 : value(row, metrics[k]) # NaN)

\* Series.min() and Series.max(): NaN is skipped; NaN when nothing is left
column(df, m) == {value(df[i], m) : i \in DOMAIN df} \ {NaN}
col_min(df, m) ==
    IF column(df, m) = {} THEN NaN
    ELSE CHOOSE x \in column(df, m) : \A y \in column(df, m) : x <= y
col_max(df, m) ==
    IF column(df, m) = {} THEN NaN
    ELSE CHOOSE x \in column(df, m) : \A y \in column(df, m) : y <= x

\* a score p / q, or NaN
Score(p, q) == [nan |-> FALSE, p |-> p, q |-> q]
NaNScore == [nan |-> TRUE, p |-> 0, q |-> 1]

\* (x - lo) / (hi - lo): 0 / 0 and anything with a NaN are NaN
shifted(x, lo, hi) == IF x = NaN \/ lo = NaN THEN NaNScore ELSE Score(x - lo, 1)

normalize(x, lo, hi) ==
    IF x = NaN \/ lo = NaN \/ hi = lo THEN NaNScore ELSE Score(x - lo, hi - lo)

\* row i of the score column of metric m
score(df, m, i) ==
    LET s == normalize(value(df[i], m), col_min(df, m), col_max(df, m))
    IN  IF s.nan \/ m \notin lower_is_better THEN s ELSE Score(s.q - s.p, s.q)

\* the lambda of the apply: the sum of score * weight over the score columns
\* that are not NaN in the row, as p / q over one denominator for the frame
composite(df, has_rank) ==
    LET ms == weighted(has_rank)
        den == [m \in ms |->
                  IF col_max(df, m) = NaN \/ col_max(df, m) = col_min(df, m)
                  THEN 1 ELSE col_max(df, m) - col_min(df, m)] @@ << >>
        Q == den["sharpe_ratio"] * den["max_drawdown"] * den["manager_term"]
               * den["concentration"] * (IF has_rank THEN den["rank(1y)"] ELSE 1)
    IN  [i \in DOMAIN df |->
            LET sc == [m \in ms |-> score(df, m, i)] @@ << >>
                term == [m \in ms |->
                           IF sc[m].nan THEN 0
                           ELSE weights(m, has_rank) * sc[m].p * (Q \div sc[m].q)]
                          @@ << >>
            IN  [p |-> term["sharpe_ratio"] + term["max_drawdown"]
                         + term["manager_term"] + term["concentration"]
                         + (IF has_rank THEN term["rank(1y)"] ELSE 0),
                 q |-> 100 * Q,
                 used |-> {m \in ms : ~sc[m].nan}]] @@ << >>

\* the permutations of 1..n
Orders(n) ==
    {o \in [1..n -> 1..n] : \A i, j \in 1..n : o[i] = o[j] => i = j}

\* sort_values(by='综合评分', ascending=False): descending score; quicksort
\* fixes no order among equal scores, ties says which of them comes first
sort_by_score(scores, ties) ==
    LET n == Len(scores)
        place == [i \in 1..n |->
                    Cardinality({j \in 1..n :
                        \/ scores[j].p > scores[i].p
                        \/ (scores[j].p = scores[i].p /\ ties[j] < ties[i])}) + 1]
                 @@ << >>
    IN  [k \in 1..n |-> CHOOSE i \in 1..n : place[i] = k] @@ << >>

\* calculate_composite_score(df): the rows kept, their scores, and the order
\* of the result (positions in the rows kept)
calculate_composite_score(df, has_rank, ties) ==
    LET kept == dropna_all(df)
        scores == composite(kept, has_rank)
    IN  IF kept = << >> THEN [rows |-> << >>, scores |-> << >>, order |-> << >>]
        ELSE [rows |-> kept, scores |-> scores,
              order |-> sort_by_score(scores, ties)]

\* the frames of the model: rows a and b in turn; the codes go up or down the
\* frame; rank(1y) is the place in the frame
ScoreFrame(n, a, b, reversed, has_rank) ==
    LET picks == [i \in 1..n |-> IF i % 2 = 1 THEN a ELSE b]
    IN  [i \in 1..n |->
            [fund_code |-> IF reversed THEN n + 1 - i ELSE i,
             sharpe_ratio |-> picks[i].sharpe_ratio,
             max_drawdown |-> picks[i].max_drawdown,
             manager_term |-> picks[i].manager_term,
             concentration |-> picks[i].concentration,
             rank1y |-> IF has_rank THEN i ELSE NaN]] @@ << >>

CallCalculateCompositeScore ==
    /\ last = NoCall
    /\ UNCHANGED << files, schedVars >>
    /\ \E n \in 1..ScoredFunds, a, b \in MetricRows, reversed, has_rank \in BOOLEAN :
        LET df == ScoreFrame(n, a, b, reversed, has_rank)
        IN  \E ties \in Orders(Len(df)) :
                last' = Last("calculate_composite_score", "",
                             [df |-> df, has_rank |-> has_rank], NoFile,
                             [ret |-> calculate_composite_score(df, has_rank, ties),
                              net |-> 0, fetched |-> None, wfailed |-> FALSE,
                              calls |-> << >>, raised |-> FALSE], FALSE)

SpecScore == CacheInit /\ [][CallCalculateCompositeScore]_vars


Scored == last.fn = "calculate_composite_score"

\* the sum, in hundredths, of the weights applied to a row that used the
\* score columns ms
AppliedWeight(ms, has_rank) ==
    LET w(m) == IF m \in ms THEN weights(m, has_rank) ELSE 0
    IN  w("sharpe_ratio") + w("max_drawdown") + w("manager_term")
          + w("concentration") + w("rank(1y)")

\* C21: for every fund of a scoring pass the weights applied to its present
\* metrics sum to 1 (the weights of a missing metric are redistributed), and
\* its composite score is in [0, 1].
C21_WeightsRenormalized ==
    Scored
        => \A i \in DOMAIN last.ret.scores :
              LET sc == last.ret.scores[i]
                  present == {m \in weighted(last.args.has_rank) :
                                 value(last.ret.rows[i], m) # NaN}
              IN  /\ (present # {} /\ sc.used = present)
                     => AppliedWeight(sc.used, last.args.has_rank) = 100
                  /\ 0 <= sc.p /\ sc.p <= sc.q

\* the best and the worst value of metric m in the rows df
best(df, m) == IF m \in lower_is_better THEN col_min(df, m) ELSE col_max(df, m)
worst(df, m) == IF m \in lower_is_better THEN col_max(df, m) ELSE col_min(df, m)

\* C22: with two or more funds, every normalized score of a metric the funds
\* have is a number in [0, 1], 1 for the best fund and 0 for the worst, also
\* when all the funds have the same value of the metric.
C22_NormalizedScores ==
    (Scored /\ Len(last.ret.rows) >= 2)
        => \A m \in weighted(last.args.has_rank) :
              LET df == last.ret.rows
              IN  (\A i \in DOMAIN df : value(df[i], m) # NaN)
                    => \A i \in DOMAIN df :
                          LET s == score(df, m, i)
                          IN  /\ ~s.nan
                              /\ 0 <= s.p /\ s.p <= s.q
                              /\ value(df[i], m) = best(df, m) => s.p = s.q
                              /\ (value(df[i], m) = worst(df, m)
                                    /\ worst(df, m) # best(df, m)) => s.p = 0

\* C23: the output is sorted by composite score, highest first, and equal
\* scores are ordered by fund code, so the same rows always give the same
\* output order.
C23_SortedTiesById ==
    Scored
        => \A k \in DOMAIN last.ret.order :
              \A l \in DOMAIN last.ret.order :
                 k < l
                   => LET i == last.ret.order[k]
                          j == last.ret.order[l]
                      IN  \/ last.ret.scores[i].p > last.ret.scores[j].p
                          \/ /\ last.ret.scores[i].p = last.ret.scores[j].p
                             /\ last.ret.rows[i].fund_code < last.ret.rows[j].fund_code


(***************************************************************************)
(* The scoring pass in floating point.  pandas holds every column as       *)
(* float64, so x - min, the division, 1 - s, score * weight and the sum    *)
(* each round their exact result to the nearest float, ties to even.  A    *)
(* float is m * 2^e with m below 2^SignificandBits (53 for float64).       *)
(***************************************************************************)
SignificandBits == 3
ScaleLevels == 3
Factors == {2, 3}

RECURSIVE Pow2(_)
Pow2(k) == IF k = 0 THEN 1 ELSE 2 * Pow2(k - 1)

\* p / q rounded to an integer, halves to the even neighbour
RoundHalfEven(p, q) ==
    LET f == p \div q
        r == p % q
    IN  IF 2 * r < q THEN f
        ELSE IF 2 * r > q THEN f + 1
        ELSE IF f % 2 = 0 THEN f ELSE f + 1

FloatZero == [m |-> 0, e |-> 0]

\* the significands of the floats other than 0 are
\* MinSignificand..(2 * MinSignificand - 1)
MinSignificand == Pow2(SignificandBits - 1)

\* the float nearest to (p / q) * 2^e, for p >= 0 and q > 0
RECURSIVE fl(_, _, _)
fl(p, q, e) ==
    IF p = 0 THEN FloatZero
    ELSE IF p >= 2 * MinSignificand * q THEN fl(p, 2 * q, e + 1)
    ELSE IF p < MinSignificand * q THEN fl(2 * p, q, e - 1)
    ELSE LET m == RoundHalfEven(p, q)
         IN  IF m = 2 * MinSignificand THEN [m |-> MinSignificand, e |-> e + 1]
             ELSE [m |-> m, e |-> e]

\* a and b as integers over the smaller of the two exponents
aligned(a, b) ==
    LET e == IF a.e < b.e THEN a.e ELSE b.e
    IN  [a |-> a.m * Pow2(a.e - e), b |-> b.m * Pow2(b.e - e), e |-> e]

float_add(a, b) == LET c == aligned(a, b) IN fl(c.a + c.b, 1, c.e)
\* a - b for a >= b
float_sub(a, b) == LET c == aligned(a, b) IN fl(c.a - c.b, 1, c.e)
float_mul(a, b) == fl(a.m * b.m, 1, a.e + b.e)
\* a / b for b > 0
float_quot(a, b) == fl(a.m, b.m, a.e - b.e)
float_less(a, b) == LET c == aligned(a, b) IN c.a < c.b

\* a float score, or NaN
FloatScore(f) == [nan |-> FALSE, f |-> f]
FloatNaN == [nan |-> TRUE, f |-> FloatZero]

\* the bug of a score that is x - min, with no division by the range
float_shifted(x, lo, hi) ==
    IF x = NaN \/ lo = NaN THEN FloatNaN
    ELSE FloatScore(float_sub(fl(x, 1, 0), fl(lo, 1, 0)))

\* (x - min) / (max - min) on floats; 0 / 0 and anything with a NaN are NaN
float_normalize(x, lo, hi) ==
    IF x = NaN \/ lo = NaN \/ hi = lo THEN FloatNaN
    ELSE FloatScore(float_quot(float_sub(fl(x, 1, 0), fl(lo, 1, 0)),
                               float_sub(fl(hi, 1, 0), fl(lo, 1, 0))))

\* row i of the score column of metric m
float_score(df, m, i) ==
    LET s == float_normalize(value(df[i], m), col_min(df, m), col_max(df, m))
    IN  IF s.nan \/ m \notin lower_is_better THEN s
        ELSE FloatScore(float_sub(fl(1, 1, 0), s.f))

\* the lambda of the apply: sum() adds score * weight to 0, one score column
\* after the other in the order of the weights dict, skipping NaN
RECURSIVE float_sum(_, _, _, _)
float_sum(sc, has_rank, k, acc) ==
    IF k > Len(metrics) THEN acc
    ELSE LET m == metrics[k]
         IN  IF m \notin weighted(has_rank) \/ sc[m].nan
             THEN float_sum(sc, has_rank, k + 1, acc)
             ELSE float_sum(sc, has_rank, k + 1,
                     float_add(acc, float_mul(sc[m].f,
                                              fl(weights(m, has_rank), 100, 0))))

float_composite(df, has_rank) ==
    [i \in DOMAIN df |->
        LET sc == [m \in weighted(has_rank) |-> float_score(df, m, i)] @@ << >>
        IN  [sc |-> sc, total |-> float_sum(sc, has_rank, 1, FloatZero)]] @@ << >>

\* sort_values on the float column: descending, ties in the order ties gives
float_sort(scores, ties) ==
    LET n == Len(scores)
        place == [i \in 1..n |->
                    Cardinality({j \in 1..n :
                        \/ float_less(scores[i].total, scores[j].total)
                        \/ (scores[j].total = scores[i].total /\ ties[j] < ties[i])}) + 1]
                 @@ << >>
    IN  [k \in 1..n |-> CHOOSE i \in 1..n : place[i] = k] @@ << >>

float_composite_score(df, has_rank, ties) ==
    LET kept == dropna_all(df)
        scores == float_composite(kept, has_rank)
    IN  IF kept = << >> THEN [rows |-> << >>, scores |-> << >>, order |-> << >>]
        ELSE [rows |-> kept, scores |-> scores, order |-> float_sort(scores, ties)]

\* what a metric's column holds once every value is multiplied by c: the
\* float nearest to c * x, which is an integer for integers c and x
times(x, c) == IF x = NaN THEN NaN
               ELSE LET y == fl(c * x, 1, 0)
                    IN  IF y.e >= 0 THEN y.m * Pow2(y.e) ELSE y.m \div Pow2(0 - y.e)

scaled(df, m, c) ==
    [i \in DOMAIN df |->
        [fund_code |-> df[i].fund_code,
         sharpe_ratio |-> IF m = "sharpe_ratio" THEN times(df[i].sharpe_ratio, c)
                          ELSE df[i].sharpe_ratio,
         max_drawdown |-> IF m = "max_drawdown" THEN times(df[i].max_drawdown, c)
                          ELSE df[i].max_drawdown,
         manager_term |-> IF m = "manager_term" THEN times(df[i].manager_term, c)
                          ELSE df[i].manager_term,
         concentration |-> IF m = "concentration" THEN times(df[i].concentration, c)
                           ELSE df[i].concentration,
         rank1y |-> IF m = "rank(1y)" THEN times(df[i].rank1y, c)
                    ELSE df[i].rank1y]] @@ << >>

\* the frames of the scaling runs: column m holds col; the other columns hold
\* the place of the fund in the frame, or NaN in a bare frame
ScaleFrame(n, m, col, bare) ==
    LET cell(i, c) == IF m = c THEN col[i] ELSE IF bare THEN NaN ELSE i
    IN  [i \in 1..n |->
            [fund_code |-> i,
             sharpe_ratio |-> cell(i, "sharpe_ratio"),
             max_drawdown |-> cell(i, "max_drawdown"),
             manager_term |-> cell(i, "manager_term"),
             concentration |-> cell(i, "concentration"),
             rank1y |-> cell(i, "rank(1y)")]] @@ << >>

\* equal scores in the order of the frame, or in the opposite order
TieOrders(n) == {[i \in 1..n |-> i], [i \in 1..n |-> n + 1 - i]}

\* calculate_composite_score on a frame and on the frame with one metric
\* multiplied by c
CallScaledCompositeScore ==
    /\ last = NoCall
    /\ UNCHANGED << files, schedVars >>
    /\ \E n \in 2..ScoredFunds, k \in DOMAIN metrics, c \in Factors :
         \E col \in [1..n -> 1..ScaleLevels], bare \in BOOLEAN,
            ties \in TieOrders(n) :
            LET m == metrics[k]
                df == ScaleFrame(n, m, col, bare)
            IN  last' = Last("calculate_composite_score scaled", "",
                             [df |-> df, m |-> m, c |-> c], NoFile,
                             [ret |-> << float_composite_score(df, TRUE, ties),
                                         float_composite_score(scaled(df, m, c),
                                                               TRUE, ties) >>,
                              net |-> 0, fetched |-> None, wfailed |-> FALSE,
                              calls |-> << >>, raised |-> FALSE], FALSE)

SpecScale == CacheInit /\ [][CallScaledCompositeScore]_vars

Scaled == last.fn = "calculate_composite_score scaled"

\* the two passes give every fund the same scores and the same place
SameRanking ==
    /\ last.ret[1].scores = last.ret[2].scores
    /\ last.ret[1].order = last.ret[2].order

IngestRows == 3
IngestDates == 3

\* the payloads of at most IngestRows rows
SourceRows == [date : 1..IngestDates, net_value : {NaN, 1, 2}]
SourcePayloads ==
    UNION {[1..n -> SourceRows] : n \in 0..IngestRows}

\* lines 724-731 and 754-761 on a payload of the source
CallIngest ==
    /\ last = NoCall
    /\ UNCHANGED << files, schedVars >>
    /\ \E rows \in SourcePayloads, start_date, end_date \in 1..IngestDates :
          last' = Last("ingest", "",
                       [rows |-> rows, start_date |-> start_date, end_date |-> end_date],
                       NoFile,
                       [ret |-> ingest(rows, start_date, end_date),
                        net |-> 1, fetched |-> None, wfailed |-> FALSE,
                        calls |-> << >>, raised |-> FALSE], FALSE)

SpecIngest == CacheInit /\ [][CallIngest]_vars

\* C25: every series ingestion hands on has strictly increasing dates, with
\* no date twice, whatever the order and the duplicates of the payload.
C25_StrictlyIncreasingDates ==
    last.fn = "ingest"
        => \A i \in DOMAIN last.ret.df :
              \A j \in DOMAIN last.ret.df :
                 i < j => last.ret.df[i].date < last.ret.df[j].date


(***************************************************************************)
(* The fee criterion of calculate_score_and_filter                         *)
(***************************************************************************)
\* fee = get_fund_fee(code); the criterion passes when fee <= MAX_FEE
FeeCriterion ==
    /\ UNCHANGED schedVars
    /\ Follows("fee criterion")
    /\ \E code \in Codes, resp \in FeeResponses, w \in WriteOutcomes :
        LET o == get_fund_fee(files, code, resp, w)
        IN  /\ files' = o.files
            /\ last' = Last("fee criterion", code, [resp |-> resp],
                            files[<<"fee", code>>],
                            [o EXCEPT !.ret = [fee |-> o.ret, passed |-> o.ret <= MAX_FEE]],
                            FALSE)

SpecFee == CacheInit /\ [][FeeCriterion]_vars

\* the call asked the source and the answer held no management fee
FeeUnobtainable ==
    /\ last.fn = "fee criterion"
    /\ last.net = 1
    /\ last.args.resp.kind # "fee"

\* C26: when the management fee cannot be obtained, get_fund_fee returns no
\* number that passes fee <= MAX_FEE, and writes no substitute to the cache.
C26_NoFabricatedFee ==
    FeeUnobtainable
        => /\ ~last.ret.passed
           /\ files[<<"fee", last.code>>] = last.before


(***************************************************************************)
(* One thread of get_quote_history_multi: @retry(tries=3, delay=1) around  *)
(* start, which calls get_quote_history, itself under @retry(tries=3)      *)
(***************************************************************************)
\* @retry(tries=3, delay=1) on start
START_TRIES == 3

\* what the calls of the body of get_quote_history do, one after the other
StartPlans == [1..(START_TRIES * RETRY_TRIES) -> CallOutcomes]

\* retry_internal around start: each try runs the body of start, whose
\* get_quote_history(fund_code, pz) goes through its own retry_internal; made
\* is the calls of the body of get_quote_history so far
RECURSIVE retry_start(_, _, _)
retry_start(plan, tries, made) ==
    LET _df == retry_call(plan, RETRY_TRIES, made)
    IN  IF _df.ok THEN _df
        ELSE IF tries - 1 = 0 THEN _df
        ELSE retry_start(plan, tries - 1, _df.made)

CallStart ==
    /\ last = NoCall
    /\ UNCHANGED << files, schedVars >>
    /\ \E plan \in StartPlans :
        LET r == retry_start(plan, START_TRIES, << >>)
        IN  last' = Last("start", "", [plan |-> plan], NoFile,
                         [ret |-> r.ok, net |-> Len(r.made), fetched |-> None,
                          wfailed |-> FALSE, calls |-> r.made, raised |-> ~r.ok],
                         FALSE)

SpecStart == CacheInit /\ [][CallStart]_vars

\* C27: for one fund code of get_quote_history_multi the underlying fetch is
\* invoked at most 3 times (the two retry wrappers do not multiply), and the
\* task ends after that many failures.
C27_AttemptsNotMultiplied ==
    last.fn = "start"
        => /\ Len(last.calls) <= RETRY_TRIES
           /\ (\A k \in DOMAIN last.calls : last.calls[k] # "ok") => last.raised


(***************************************************************************)
(* get_industry_from_stocks: the holdings by industry and the              *)
(* concentration of the three largest industries, in percent               *)
(***************************************************************************)
MaxStocks == 3

\* stock codes of SW_INDUSTRY_MAPPING, and one it does not list
StockCodes == {"600519", "000858", "600036", "300750", "999999"}
\* "food" is 食品饮料, "finance" 金融, "computer" 计算机, "other" 其他
SW_INDUSTRY_MAPPING(code) ==
    CASE code \in {"600519", "000858"} -> "food"
      [] code = "600036" -> "finance"
      [] code = "300750" -> "computer"
      [] OTHER -> "other"

\* the industries in the order groupby lists them
Industries == << "food", "finance", "computer", "other" >>

\* the holdings a page can list: stocks with their share of the fund
Proportions == {5, 35}
Holdings ==
    UNION {[1..n -> [code : StockCodes, proportion : Proportions]] : n \in 0..MaxStocks}

\* df.groupby('industry')['proportion'].sum() for one industry
RECURSIVE held(_, _, _)
held(stocks, industry, i) ==
    IF i > Len(stocks) THEN 0
    ELSE (IF SW_INDUSTRY_MAPPING(stocks[i].code) = industry
          THEN stocks[i].proportion ELSE 0) + held(stocks, industry, i + 1)

\* the sum of the first n rows of the column
RECURSIVE iloc_sum(_, _)
iloc_sum(industry_df, n) ==
    IF n = 0 THEN 0 ELSE industry_df[n].proportion + iloc_sum(industry_df, n - 1)

\* a concentration that sums the rows there are
top_rows_concentration(industry_df) ==
    iloc_sum(industry_df, IF Len(industry_df) >= 3 THEN 3 ELSE Len(industry_df))

\* industry_df['持仓比例'].iloc[:3].sum() if len(industry_df) >= 3 else 0.0
top3_concentration(industry_df) ==
    IF Len(industry_df) >= 3 THEN iloc_sum(industry_df, 3) ELSE 0

get_industry_from_stocks(stocks) ==
    LET present == {k \in DOMAIN Industries :
                       \E i \in DOMAIN stocks :
                          SW_INDUSTRY_MAPPING(stocks[i].code) = Industries[k]}
        total == [k \in present |-> held(stocks, Industries[k], 1)] @@ << >>
        \* sort_values('持仓比例', ascending=False); equal sums as groupby lists them
        place == [k \in present |->
                     Cardinality({j \in present :
                         \/ total[j] > total[k]
                         \/ (total[j] = total[k] /\ j < k)}) + 1] @@ << >>
        industry_df == [r \in 1..Cardinality(present) |->
                           LET k == CHOOSE k \in present : place[k] = r
                           IN  [industry |-> Industries[k], proportion |-> total[k]]]
                       @@ << >>
    IN  IF stocks = << >> THEN [industry_df |-> << >>, top3_concentration |-> 0]
        ELSE [industry_df |-> industry_df,
              top3_concentration |-> top3_concentration(industry_df)]

CallGetIndustryFromStocks ==
    /\ last = NoCall
    /\ UNCHANGED << files, schedVars >>
    /\ \E stocks \in Holdings :
          last' = Last("get_industry_from_stocks", "", [stocks |-> stocks], NoFile,
                       [ret |-> get_industry_from_stocks(stocks),
                        net |-> 0, fetched |-> None, wfailed |-> FALSE,
                        calls |-> << >>, raised |-> FALSE], FALSE)

SpecIndustry == CacheInit /\ [][CallGetIndustryFromStocks]_vars

\* the sum of every holding of the list
RECURSIVE Invested(_, _)
Invested(stocks, i) ==
    IF i > Len(stocks) THEN 0 ELSE stocks[i].proportion + Invested(stocks, i + 1)

\* C30: for a non-empty holdings list the concentration is the sum of the
\* up-to-three largest industries, so a fund of one or two industries that
\* hold more than 60 together does not pass concentration <= 60.
C30_TopThreeConcentration ==
    (last.fn = "get_industry_from_stocks" /\ last.args.stocks # << >>)
        => LET df == last.ret.industry_df
           IN  /\ last.ret.top3_concentration = top_rows_concentration(df)
               /\ (Len(df) <= 2 /\ Invested(last.args.stocks, 1) > 60)
                     => ~(last.ret.top3_concentration <= 60)


(***************************************************************************)
(* The start dates of the ranking windows, as get_fund_rankings writes     *)
(* them from the text of end_date ('YYYY-MM-DD')                           *)
(***************************************************************************)
\* a text is the sequence of its characters
Digits == << "0", "1", "2", "3", "4", "5", "6", "7", "8", "9" >>

\* str(n) for n >= 0
RECURSIVE decimal(_)
decimal(n) == IF n < 10 THEN << Digits[n + 1] >>
              ELSE decimal(n \div 10) \o << Digits[(n % 10) + 1] >>

\* f"{n:02d}": the sign counts in the width of 2
format_02d(n) ==
    IF n < 0 THEN << "-" >> \o decimal(0 - n)
    ELSE IF n < 10 THEN << "0" >> \o decimal(n)
    ELSE decimal(n)

\* int(text) of a text of digits
RECURSIVE int(_)
int(text) ==
    IF text = << >> THEN 0
    ELSE 10 * int(SubSeq(text, 1, Len(text) - 1))
           + (CHOOSE d \in 0..9 : Digits[d + 1] = text[Len(text)])

\* the end dates of the model
EndYears == 2023..2025
DaysOfMonth(year, month) ==
    IF month = 2 THEN (IF year % 4 = 0 THEN 29 ELSE 28)
    ELSE IF month \in {4, 6, 9, 11} THEN 30 ELSE 31
EndDays == {1, 11, 28, 29, 30, 31}
CalendarDates ==
    {d \in [year : EndYears, month : 1..12, day : EndDays] :
        d.day <= DaysOfMonth(d.year, d.month)}

\* strftime('%Y-%m-%d')
isoformat(d) ==
    decimal(d.year) \o << "-" >> \o format_02d(d.month) \o << "-" >> \o format_02d(d.day)

\* f"{int(end_date[:4])-(1 if int(end_date[5:7])<=6 else 0)}-{int(end_date[5:7])-6:02d}{end_date[7:]}"
\* and the same with 3
window_start(end_date, months) ==
    LET month == int(SubSeq(end_date, 6, 7))
    IN  decimal(int(SubSeq(end_date, 1, 4)) - (IF month <= months THEN 1 ELSE 0))
          \o << "-" >>
          \o format_02d(month - months)
          \o SubSeq(end_date, 8, Len(end_date))

\* f"{int(end_date[:4])-2}{end_date[4:]}" and the same with 1
years_before(end_date, years) ==
    decimal(int(SubSeq(end_date, 1, 4)) - years) \o SubSeq(end_date, 5, Len(end_date))

\* the start dates of the dict periods, by window
period_starts(start_date, end_date) ==
    [p \in {periods[k] : k \in DOMAIN periods} |->
        CASE p = "3y" -> start_date
          [] p = "2y" -> years_before(end_date, 2)
          [] p = "1y" -> years_before(end_date, 1)
          [] p = "6m" -> window_start(end_date, 6)
          [] p = "3m" -> window_start(end_date, 3)] @@ << >>

\* datetime.now() - pd.DateOffset(years=3): the same day of the year, the last
\* day of February for a 29th that the year does not have
years_ago(d, years) ==
    [year |-> d.year - years, month |-> d.month,
     day |-> IF d.day <= DaysOfMonth(d.year - years, d.month) THEN d.day
             ELSE DaysOfMonth(d.year - years, d.month)]

\* main: end_date is today, start_date three years earlier
CallPeriodStarts ==
    /\ last = NoCall
    /\ UNCHANGED << files, schedVars >>
    /\ \E d \in CalendarDates :
          last' = Last("periods", "", [end_date |-> d], NoFile,
                       [ret |-> period_starts(isoformat(years_ago(d, 3)), isoformat(d)),
                        net |-> 0, fetched |-> None, wfailed |-> FALSE,
                        calls |-> << >>, raised |-> FALSE], FALSE)

SpecPeriods == CacheInit /\ [][CallPeriodStarts]_vars

\* the date months before d, day for day
MonthsBefore(d, months) ==
    [year |-> IF d.month <= months THEN d.year - 1 ELSE d.year,
     month |-> IF d.month <= months THEN d.month - months + 12 ELSE d.month - months,
     day |-> d.day]

\* text is YYYY-MM-DD with a month of 1..12
WellFormed(text) ==
    /\ Len(text) = 10
    /\ \A i \in 1..10 :
          IF i \in {5, 8} THEN text[i] = "-"
          ELSE \E d \in DOMAIN Digits : Digits[d] = text[i]
    /\ int(SubSeq(text, 6, 7)) \in 1..12

\* C29: for every end date the 6-month and the 3-month start dates are
\* well-formed dates, month in 1..12, exactly 6 and 3 months before the end
\* date, also when the year rolls back.
C29_WindowStarts ==
    last.fn = "periods"
        => /\ WellFormed(last.ret["6m"])
           /\ last.ret["6m"] = isoformat(MonthsBefore(last.args.end_date, 6))
           /\ WellFormed(last.ret["3m"])
           /\ last.ret["3m"] = isoformat(MonthsBefore(last.args.end_date, 3))


(***************************************************************************)
(* calculate_score_and_filter and the loop of __main__ that collects and   *)
(* ranks its results.  Percentages are in tenths of a percent, the Sharpe  *)
(* ratio in tenths, the concentration in percent.                          *)
(***************************************************************************)
\* fund_screener.py:33-35
MIN_RETURN == 30
MAX_VOLATILITY == 250
MIN_SHARPE == 2

\* what calculate_metrics hands back for the series: None, or the three
\* metrics, each at its threshold or just on the failing side of it
MetricsAnswers ==
    {None} \cup {<< m >> : m \in [annual_return : {MIN_RETURN - 1, MIN_RETURN},
                                  annual_volatility : {MAX_VOLATILITY, MAX_VOLATILITY + 1},
                                  sharpe_ratio : {MIN_SHARPE - 1, MIN_SHARPE}]}

\* the answers of the two sources of net values: no data, a series, or the
\* KeyError of an empty Data_netWorthTrend
NetAnswers ==
    {<< [kind |-> "reqexc", payload |-> ""], [kind |-> "nolist", payload |-> ""] >>,
     << [kind |-> "data", payload |-> "asc"], [kind |-> "nolist", payload |-> ""] >>,
     << [kind |-> "emptylist", payload |-> ""], [kind |-> "nolist", payload |-> ""] >>}

\* the answers of FundHoldInfo.aspx: the request raises ("exc"), or the rows
\* of the first table
HoldingsAnswers ==
    {[kind |-> "exc", stocks |-> << >>],
     [kind |-> "table", stocks |-> << [code |-> "600519", proportion |-> 35],
                                      [code |-> "600036", proportion |-> 35],
                                      [code |-> "300750", proportion |-> 5] >>],
     [kind |-> "table", stocks |-> << [code |-> "600519", proportion |-> 5],
                                      [code |-> "600036", proportion |-> 5],
                                      [code |-> "300750", proportion |-> 5] >>]}

\* what the sources answer for one fund
FundAnswers ==
    [net : NetAnswers, metrics : MetricsAnswers, fee : FeeResponses,
     holdings : HoldingsAnswers]

\* the five tests of the scoring, in the order of the code, with their points
criteria == << "return", "volatility", "sharpe", "fee", "concentration" >>
points == << 30, 25, 20, 15, 10 >>

passes(c, m, fee, concentration) ==
    CASE c = "return" -> m.annual_return >= MIN_RETURN
      [] c = "volatility" -> m.annual_volatility <= MAX_VOLATILITY
      [] c = "sharpe" -> m.sharpe_ratio >= MIN_SHARPE
      [] c = "fee" -> fee <= MAX_FEE
      [] c = "concentration" -> concentration <= 60

\* a function that returns the row whatever reason_list holds
returned_unfiltered(result, reason_list) == Some(result)

\* if not reason_list: return result / else: return None
returned(result, reason_list) ==
    IF reason_list = << >> THEN Some(result) ELSE None

\* The row of one fund: the criteria it fails (reason_list), its score and
\* the result dictionary
fund_result(code, m, fee, realtime_estimate, company, industry) ==
    LET failed == {k \in DOMAIN criteria :
                      ~passes(criteria[k], m, fee, industry.top3_concentration)}
        reason_list == SelectSeq(criteria, LAMBDA c : \E k \in failed : criteria[k] = c)
    IN  [code |-> code, metrics |-> m, fee |-> fee,
         realtime_estimate |-> realtime_estimate, company |-> company,
         industry_df |-> industry.industry_df,
         concentration |-> industry.top3_concentration,
         score |-> (IF 1 \in failed THEN 0 ELSE points[1])
                    + (IF 2 \in failed THEN 0 ELSE points[2])
                    + (IF 3 \in failed THEN 0 ELSE points[3])
                    + (IF 4 \in failed THEN 0 ELSE points[4])
                    + (IF 5 \in failed THEN 0 ELSE points[5]),
         \* '合格' if not reason_list else '不合格'
         result |-> IF reason_list = << >> THEN "qualified" ELSE "unqualified",
         reason |-> reason_list]

\* the end of calculate_score_and_filter: the files it leaves, what it returns
\* and what it scored
filtered(fs, result) ==
    [files |-> fs, ret |-> returned(result, result.reason), raised |-> FALSE,
     scored |-> Some(result)]

\* calculate_score_and_filter from the holdings on: get_fund_stock_holdings
\* and get_industry_from_stocks (an exception leaves an empty table and 0),
\* then the criteria
score_holdings(code, a, fee, realtime_estimate, company) ==
    filtered(company.files,
             fund_result(code, a.metrics[1], fee, realtime_estimate, company.ret,
                         IF a.holdings.kind = "exc"
                         THEN [industry_df |-> << >>, top3_concentration |-> 0]
                         ELSE get_industry_from_stocks(a.holdings.stocks)))

\* calculate_score_and_filter from the company on
score_company(code, a, w, fee, realtime_estimate) ==
    score_holdings(code, a, fee, realtime_estimate.ret,
                   get_fund_company_info(realtime_estimate.files, code,
                                         [kind |-> "name", name |-> "E Fund"], w))

\* calculate_score_and_filter from the realtime estimate on
score_estimate(code, a, w, fee) ==
    score_company(code, a, w, fee.ret,
                  get_fund_realtime_estimate(fee.files, code,
                                             [kind |-> "gsz", gsz |-> 11], w))

\* calculate_score_and_filter once the net values are there: None for an
\* empty table or metrics that cannot be computed, else the fee and the rest
score_net_values(code, a, w, nv) ==
    IF nv.raised
      THEN [files |-> nv.files, ret |-> None, raised |-> TRUE, scored |-> None]
    ELSE IF nv.ret.df = << >> \/ a.metrics = None
      THEN [files |-> nv.files, ret |-> None, raised |-> FALSE, scored |-> None]
    ELSE score_estimate(code, a, w, get_fund_fee(nv.files, code, a.fee, w))

\* calculate_score_and_filter(fund, start_date) with the files fs: the files
\* it leaves, what it returns (None or the row) or that it raised, and what
\* it scored
calculate_score_and_filter(fs, code, a, w) ==
    score_net_values(code, a, w,
                     get_fund_net_values(fs, code, 1, MaxDate, a.net[1], a.net[2], w))

\* results, and final_df = pd.DataFrame(results).sort_values('综合评分',
\* ascending=False): rows of equal score in the order of results
final_df(tasks) ==
    LET kept == SelectSeq(tasks, LAMBDA t : t.ret # None)
        results == [i \in DOMAIN kept |-> kept[i].ret[1]]
        n == Len(results)
        place == [i \in 1..n |->
                    Cardinality({j \in 1..n :
                        \/ results[j].score > results[i].score
                        \/ (results[j].score = results[i].score /\ j < i)}) + 1]
                 @@ << >>
    IN  [k \in 1..n |-> results[CHOOSE i \in 1..n : place[i] = k]] @@ << >>

\* the funds of fund_df
FundLists == {<< "000001" >>, << "000001", "000002" >>}

\* One task of the pool, fund after fund in the order of fund_df (a task reads
\* and writes the cache files of its own fund only), and the loop
\*   for future in futures: result = future.result(); if result:
\*   results.append(result)   (an exception is printed)
\* tasks is the futures that are done; after the last one the results are ranked
MainScreen ==
    /\ UNCHANGED schedVars
    /\ \E funds \in FundLists, w \in {"ok", "dump_fails"}, a \in FundAnswers :
        LET begun == last.fn = "__main__"
            tasks == IF begun THEN last.ret.tasks ELSE << >>
        IN  /\ \/ last = NoCall
               \/ /\ begun
                  /\ funds = last.args.funds /\ w = last.args.w
                  /\ Len(tasks) < Len(funds)
            /\ \E o \in {calculate_score_and_filter(files, funds[Len(tasks) + 1], a, w)} :
                \E done \in {Append(tasks, [ret |-> o.ret, raised |-> o.raised,
                                            scored |-> o.scored])} :
                  /\ files' = o.files
                  /\ last' = Last("__main__", "", [funds |-> funds, w |-> w], NoFile,
                                  [ret |-> [tasks |-> done,
                                            final_df |-> IF Len(done) = Len(funds)
                                                         THEN final_df(done) ELSE << >>],
                                   net |-> 0, fetched |-> None, wfailed |-> w # "ok",
                                   calls |-> << >>, raised |-> FALSE],
                                  Len(done) = Len(funds))

SpecScreen == CacheInit /\ [][MainScreen]_vars

\* the loop is over and the results are ranked
Screened == last.fn = "__main__" /\ last.exited

\* the row passed the five tests
AllFivePass(row) ==
    /\ row.metrics.annual_return >= MIN_RETURN
    /\ row.metrics.annual_volatility <= MAX_VOLATILITY
    /\ row.metrics.sharpe_ratio >= MIN_SHARPE
    /\ row.fee <= MAX_FEE
    /\ row.concentration <= 60

\* C28: calculate_score_and_filter returns a row exactly when the fund passes
\* all five tests; every row returned has the score 100 and the result
\* 'qualified'; so every row of the final list has the same score.
C28_ReturnedIffAllPass ==
    Screened
        => /\ \A t \in DOMAIN last.ret.tasks :
                 LET task_t == last.ret.tasks[t]
                 IN  /\ task_t.ret # None
                        <=> (task_t.scored # None /\ AllFivePass(task_t.scored[1]))
                     /\ task_t.ret # None
                          => /\ task_t.ret[1].score = 100
                             /\ task_t.ret[1].result = "qualified"
           /\ \A i \in DOMAIN last.ret.final_df :
                 \A j \in DOMAIN last.ret.final_df :
                    last.ret.final_df[i].score = last.ret.final_df[j].score

\* two funds were screened: one passed the five tests and is the final list,
\* the other failed one of them and was scored under 100
C28_Witness ==
    /\ Screened
    /\ Len(last.ret.tasks) = 2
    /\ Len(last.ret.final_df) = 1
    /\ \E t \in DOMAIN last.ret.tasks :
          /\ last.ret.tasks[t].scored # None
          /\ last.ret.tasks[t].scored[1].score < 100
          /\ last.ret.tasks[t].ret = None


====
